---- MODULE Spec2Model ----
(***************************************************************************)
(* PaperBuddy extraction core: SectionScorer (section_scorer.py) with its  *)
(* file-backed feedback store, and PDFExtractor (pdf_extractor.py).        *)
(*                                                                         *)
(* Python strings are sequences of one-character strings, so that lower(), *)
(* split(), strip() and substring tests are computed, not assumed.         *)
(* Python floats are exact rationals <<numerator, denominator>>.           *)
(***************************************************************************)
EXTENDS Integers, Sequences, FiniteSets, TLC

VARIABLES
    user_feedback,   \* SectionScorer.user_feedback (in memory)
    feedback_file,   \* content of the file SectionScorer.feedback_file names
    last,            \* the most recent call on the scorer / extractor and its result
    pdf,             \* the PDF file at PDFExtractor.pdf_path
    document,        \* PDFExtractor.document (None until loaded)
    io_failures,     \* how many reads and writes of the feedback file have failed
    args             \* the arguments the scoring calls of this run are made with

vars == <<user_feedback, feedback_file, last, pdf, document, io_failures, args>>

(***************************************************************************)
(* Bounds of the model.                                                    *)
(***************************************************************************)
NumPapers == 2          \* paper ids 1..NumPapers
MaxSections == 2        \* entries of a sections dict passed to the scorer
MaxPages == 3           \* pages of a PDF
LinesPerPage == 3       \* text lines on a page
MaxIoFailures == 1      \* failed reads and writes of the feedback file in a run
MaxRatings == 1         \* ratings in a feedback file that scoring starts from

(***************************************************************************)
(* Python values.                                                          *)
(***************************************************************************)
\* An optional value (None or a value) is a sequence of length 0 or 1.
None == <<>>
Some(v) == <<v>>

RECURSIVE GCD(_, _)
GCD(a, b) == IF b = 0 THEN a ELSE GCD(b, a % b)

Abs(n) == IF n < 0 THEN -n ELSE n

\* The float n/d (d # 0), in lowest terms with a positive denominator.
Float(n, d) ==
    LET s == IF d < 0 THEN -1 ELSE 1
        g == GCD(Abs(n), Abs(d))
    IN  <<(s * n) \div g, (s * d) \div g>>

FAdd(x, y) == Float(x[1] * y[2] + y[1] * x[2], x[2] * y[2])
FDiv(x, y) == Float(x[1] * y[2], x[2] * y[1])
FLess(x, y) == x[1] * y[2] < y[1] * x[2]
FLeq(x, y) == x[1] * y[2] <= y[1] * x[2]
FZero == Float(0, 1)
FOne == Float(1, 1)
FHalf == Float(1, 2)

\* sum(values) and max(values) over the values of a dict given as a function.
RECURSIVE FSum(_, _)
FSum(f, keys) ==
    IF keys = {} THEN FZero
    ELSE LET k == CHOOSE x \in keys : TRUE
         IN  FAdd(f[k], FSum(f, keys \ {k}))

FMax(f) == CHOOSE m \in {f[k] : k \in DOMAIN f} :
               \A k \in DOMAIN f : FLeq(f[k], m)

(***************************************************************************)
(* str methods.                                                            *)
(***************************************************************************)
IsSpace(c) == c \in {" ", "\n", "\t"}

LowerChar(c) ==
    CASE c = "A" -> "a" [] c = "B" -> "b" [] c = "C" -> "c" [] c = "D" -> "d"
      [] c = "E" -> "e" [] c = "I" -> "i" [] c = "M" -> "m" [] c = "N" -> "n"
      [] c = "O" -> "o" [] c = "R" -> "r" [] c = "S" -> "s" [] c = "T" -> "t"
      [] c = "U" -> "u" [] OTHER -> c

\* s.lower()
Lower(s) == [i \in 1..Len(s) |-> LowerChar(s[i])]

\* sub in s
Contains(sub, s) ==
    \E i \in 1..(Len(s) - Len(sub) + 1) : SubSeq(s, i, i + Len(sub) - 1) = sub

\* s.split(): the maximal runs of non-whitespace characters.
RECURSIVE SplitFrom(_, _, _)
SplitFrom(s, i, word) ==
    IF i > Len(s)
    THEN IF word = <<>> THEN <<>> ELSE <<word>>
    ELSE IF IsSpace(s[i])
         THEN IF word = <<>> THEN SplitFrom(s, i + 1, <<>>)
              ELSE <<word>> \o SplitFrom(s, i + 1, <<>>)
         ELSE SplitFrom(s, i + 1, Append(word, s[i]))

Split(s) == SplitFrom(s, 1, <<>>)

\* s.strip()
Strip(s) ==
    LET keep == {i \in 1..Len(s) : ~IsSpace(s[i])}
    IN  IF keep = {} THEN <<>>
        ELSE SubSeq(s, CHOOSE i \in keep : \A j \in keep : i <= j,
                       CHOOSE i \in keep : \A j \in keep : j <= i)

(***************************************************************************)
(* dict: insertion-ordered, a sequence of <<key, value>> pairs with        *)
(* distinct keys.                                                          *)
(***************************************************************************)
EmptyDict == <<>>
DictKeys(d) == {d[i][1] : i \in DOMAIN d}
DictHas(d, k) == \E i \in DOMAIN d : d[i][1] = k
DictGet(d, k) == d[CHOOSE i \in DOMAIN d : d[i][1] = k][2]
\* d.setdefault(k, v): an existing key keeps its value.
DictSetDefault(d, k, v) ==
    IF DictHas(d, k) THEN d ELSE Append(d, <<k, v>>)

\* d[k] = v: an existing key keeps its place, a new key goes last.
DictSet(d, k, v) ==
    IF DictHas(d, k)
    THEN [i \in DOMAIN d |-> IF d[i][1] = k THEN <<k, v>> ELSE d[i]]
    ELSE Append(d, <<k, v>>)

(***************************************************************************)
(* The feedback store.  A loaded JSON value is a dict                      *)
(*   paper_id -> {"section_scores": {title: score}}                        *)
(* or, when the file was written by something else, any other JSON value;  *)
(* the model keeps the empty JSON array as the one non-mapping value.      *)
(* The store's dicts are functions: no code reads their key order, and     *)
(* Python compares dicts regardless of it.                                 *)
(***************************************************************************)
EmptyMap == <<>>
\* d[k] = v on a dict held as a function
MapSet(d, k, v) == [x \in DOMAIN d \cup {k} |-> IF x = k THEN v ELSE d[x]]

PyDict(items) == [type |-> "dict", items |-> items]
PyList == [type |-> "list", items |-> EmptyMap]

\* The feedback file: missing, or holding text that json.load accepts or not.
NoFile == [exists |-> FALSE, wellformed |-> FALSE, value |-> PyDict(EmptyMap)]
CorruptFile == [exists |-> TRUE, wellformed |-> FALSE, value |-> PyDict(EmptyMap)]
\* json.dump(value, f) into a freshly truncated file
JsonDump(value) == [exists |-> TRUE, wellformed |-> TRUE, value |-> value]

\* SectionScorer._load_user_feedback; readable = open() and read() succeed
LoadUserFeedback(file, readable) ==
    IF file.exists
    THEN IF readable /\ file.wellformed THEN file.value
         ELSE PyDict(EmptyMap)
    ELSE PyDict(EmptyMap)

\* A save that opens the file for appending: a second JSON document after the
\* first is text json.load rejects.
SaveUserFeedbackAppending(store, file, outcome) ==
    CASE outcome = "ok" -> IF file.exists THEN CorruptFile ELSE JsonDump(store)
      [] outcome = "open" -> file
      [] outcome = "write" -> CorruptFile

\* A save that leaves a file alone once it holds a JSON document.
SaveUserFeedbackKeepExisting(store, file, outcome) ==
    CASE outcome = "ok" -> IF file.exists /\ file.wellformed THEN file
                           ELSE JsonDump(store)
      [] outcome = "open" -> file
      [] outcome = "write" -> CorruptFile

\* A save that writes the file whatever happens to open() and write().
SaveUserFeedbackAlways(store, file, outcome) == JsonDump(store)

\* A save that reads the file back first and keeps the papers found there that
\* the writer's own dict does not hold.
SaveUserFeedbackMerging(store, file, outcome) ==
    LET old == LoadUserFeedback(file, TRUE)
        kept == IF old.type = "dict" /\ store.type = "dict"
                THEN [p \in DOMAIN old.items \cup DOMAIN store.items |->
                         IF p \in DOMAIN store.items THEN store.items[p]
                         ELSE old.items[p]]
                ELSE store.items
    IN  CASE outcome = "ok" -> JsonDump([type |-> store.type, items |-> kept])
          [] outcome = "open" -> file
          [] outcome = "write" -> CorruptFile

\* SectionScorer._save_user_feedback.  outcome: "ok"; "open" (open() raises, the
\* file is untouched); "write" (the file was truncated and the dump stopped
\* part-way).  The exception is caught and printed in either case.
SaveUserFeedback(store, file, outcome) ==
    CASE outcome = "ok" -> JsonDump(store)
      [] outcome = "open" -> file
      [] outcome = "write" -> CorruptFile

\* An upsert that keeps a rating already stored (setdefault).
UpsertKeepFirst(store, paper_id, section_title, score) ==
    LET s1 == IF paper_id \in DOMAIN store.items THEN store.items
              ELSE MapSet(store.items, paper_id, EmptyMap)
        p1 == s1[paper_id]
        p2 == IF "section_scores" \in DOMAIN p1 THEN p1
              ELSE MapSet(p1, "section_scores", EmptyMap)
        sc == IF section_title \in DOMAIN p2["section_scores"]
              THEN p2["section_scores"]
              ELSE MapSet(p2["section_scores"], section_title, score)
    IN  PyDict(MapSet(s1, paper_id, MapSet(p2, "section_scores", sc)))

\* Lines 70-76 of add_user_feedback on a dict: both missing levels are created,
\* then the rating is assigned.
Upsert(store, paper_id, section_title, score) ==
    LET s1 == IF paper_id \in DOMAIN store.items THEN store.items
              ELSE MapSet(store.items, paper_id, EmptyMap)
        p1 == s1[paper_id]
        p2 == IF "section_scores" \in DOMAIN p1 THEN p1
              ELSE MapSet(p1, "section_scores", EmptyMap)
        sc == MapSet(p2["section_scores"], section_title, score)
    IN  PyDict(MapSet(s1, paper_id, MapSet(p2, "section_scores", sc)))

\* The ratings of every paper are consulted, not only those of paper_id.
ScoreSectionsAnyPaper(store, paper_id, sections) ==
    [i \in DOMAIN sections |->
        LET title == sections[i][1]
            rated == IF store.type = "dict"
                     THEN {p \in DOMAIN store.items :
                              /\ "section_scores" \in DOMAIN store.items[p]
                              /\ title \in DOMAIN store.items[p]["section_scores"]}
                     ELSE {}
        IN  IF rated = {} THEN <<title, FHalf>>
            ELSE <<title, store.items[CHOOSE p \in rated : TRUE]
                              ["section_scores"][title]>>]

\* The rating stored for (paper_id, title), if any.
StoredRating(store, paper_id, title) ==
    IF /\ store.type = "dict"
       /\ paper_id \in DOMAIN store.items
       /\ "section_scores" \in DOMAIN store.items[paper_id]
       /\ title \in DOMAIN store.items[paper_id]["section_scores"]
    THEN Some(store.items[paper_id]["section_scores"][title])
    ELSE None

\* A lookup that creates the missing paper entry (setdefault).
FeedbackAfterSetdefault(store, paper_id) ==
    IF store.type = "dict" /\ paper_id \notin DOMAIN store.items
    THEN PyDict(MapSet(store.items, paper_id,
                       MapSet(EmptyMap, "section_scores", EmptyMap)))
    ELSE store

\* self.user_feedback after lines 224-225 of score_sections_user_feedback: a
\* membership test and a read of a plain dict insert nothing.
FeedbackAfterLookup(store, paper_id) == store

\* SectionScorer.score_sections_user_feedback
ScoreSectionsUserFeedback(store, paper_id, sections) ==
    IF /\ store.type = "dict"
       /\ paper_id \in DOMAIN store.items
       /\ "section_scores" \in DOMAIN store.items[paper_id]
    THEN LET feedback_scores == store.items[paper_id]["section_scores"]
         IN  [i \in DOMAIN sections |->
                 LET title == sections[i][1]
                 IN  IF title \in DOMAIN feedback_scores
                     THEN <<title, feedback_scores[title]>>
                     ELSE <<title, FHalf>>]
    ELSE [i \in DOMAIN sections |-> <<sections[i][1], FHalf>>]

(***************************************************************************)
(* Model scoring.                                                          *)
(***************************************************************************)
\* keywords, section_scorer.py lines 179-180
kw_method ==
    <<"m", "e", "t", "h", "o", "d">>
kw_result ==
    <<"r", "e", "s", "u", "l", "t">>
kw_conclusion ==
    <<"c", "o", "n", "c", "l", "u", "s", "i", "o", "n">>
kw_discussion ==
    <<"d", "i", "s", "c", "u", "s", "s", "i", "o", "n">>
kw_finding ==
    <<"f", "i", "n", "d", "i", "n", "g">>
kw_contribution ==
    <<"c", "o", "n", "t", "r", "i", "b", "u", "t", "i", "o", "n">>
kw_evaluation ==
    <<"e", "v", "a", "l", "u", "a", "t", "i", "o", "n">>
kw_experiment ==
    <<"e", "x", "p", "e", "r", "i", "m", "e", "n", "t">>
keywords == <<kw_method, kw_result, kw_conclusion, kw_discussion, kw_finding, kw_contribution, kw_evaluation, kw_experiment>>

str_abstract ==
    <<"a", "b", "s", "t", "r", "a", "c", "t">>
str_introduction ==
    <<"i", "n", "t", "r", "o", "d", "u", "c", "t", "i", "o", "n">>

\* len(text.split()) < 10, lines 168 and 184
MinWords == 10
TooShort(text) == Len(Split(text)) < MinWords

\* SectionScorer.compute_similarity.  cosine[t] is the cosine of the encoder's
\* embeddings of this call's reference text and of t; a text compared with
\* itself has cosine 1.
ComputeSimilarity(cosine, text1, text2) ==
    IF text1 = text2 THEN FOne ELSE cosine[text2]

\* Lines 143-159: the reference text, None when sections is empty too.
FirstTitled(sections, word) ==
    LET hits == {i \in DOMAIN sections : Contains(word, Lower(sections[i][1]))}
    IN  IF hits = {} THEN None
        ELSE Some(sections[CHOOSE i \in hits : \A j \in hits : i <= j][2])

FindAbstract(sections, abstract) ==
    LET a1 == IF abstract = None THEN FirstTitled(sections, str_abstract)
              ELSE abstract
        a2 == IF a1 = None THEN FirstTitled(sections, str_introduction) ELSE a1
    IN  IF a2 = None /\ sections # <<>> THEN Some(sections[1][2]) ELSE a2

\* Lines 192-197: 0.2 per keyword in the title, 0.1 per keyword in the text.
RECURSIVE KeywordScore(_, _, _)
KeywordScore(title_lower, text_lower, n) ==
    IF n = 0 THEN FZero
    ELSE LET inTitle == IF Contains(keywords[n], title_lower)
                        THEN Float(1, 5) ELSE FZero
             inText == IF Contains(keywords[n], text_lower)
                       THEN Float(1, 10) ELSE FZero
         IN  FAdd(KeywordScore(title_lower, text_lower, n - 1),
                  FAdd(inTitle, inText))

\* The sum is kept as it is: no cap.
FUncapped(x, y) == x

FMin(x, y) == IF FLeq(x, y) THEN x ELSE y

\* Lines 165 and 177: "if abstract:" takes the similarity path, an empty or
\* missing reference text the keyword path.
ScoringPath(sections, abstract) ==
    LET ref == FindAbstract(sections, abstract)
    IN  IF ref # None /\ ref[1] # <<>> THEN "similarity" ELSE "keyword"

\* A section too short to score is given the neutral 0.5.
ShortSectionScoreNeutral == FHalf

\* scores[title] = 0.0, lines 169 and 185
ShortSectionScore == FZero

\* Lines 165-174: compute_similarity is called, for some section of at least
\* ten words on the similarity path.
EncoderCalled(sections, abstract) ==
    LET ref == FindAbstract(sections, abstract)
    IN  /\ ref # None /\ ref[1] # <<>>
        /\ \E i \in DOMAIN sections : ~TooShort(sections[i][2])

\* compute_similarity swallows the encoder's exception.
ModelNeverRaises(sections, abstract, encoder) == FALSE

\* score_sections_model raises: _get_embedding lets the exception of
\* _load_models, of the tokenizer or of the model through (lines 90-105), and
\* neither compute_similarity nor score_sections_model catches it.
ModelRaises(sections, abstract, encoder) ==
    encoder # "ok" /\ EncoderCalled(sections, abstract)

\* Lines 162-200: the scores before normalisation.
RawModelScores(sections, abstract, cosine) ==
    LET ref == FindAbstract(sections, abstract)
    IN  IF ref # None /\ ref[1] # <<>>
        THEN [i \in DOMAIN sections |->
                 IF TooShort(sections[i][2]) THEN <<sections[i][1], ShortSectionScore>>
                 ELSE <<sections[i][1],
                        ComputeSimilarity(cosine, ref[1], sections[i][2])>>]
        ELSE [i \in DOMAIN sections |->
                 IF TooShort(sections[i][2]) THEN <<sections[i][1], ShortSectionScore>>
                 ELSE <<sections[i][1],
                        FMin(FAdd(FOne, KeywordScore(Lower(sections[i][1]),
                                         Lower(sections[i][2]),
                                         Len(keywords))), FOne)>>]

\* max(scores.values())
MaxScore(scores) == FMax([i \in DOMAIN scores |-> scores[i][2]])

\* Lines 202-206: divide by the maximum when it is positive.
Normalize(scores) ==
    IF scores = <<>> THEN scores
    ELSE LET max_score == MaxScore(scores)
         IN  IF FLess(FZero, max_score)
             THEN [i \in DOMAIN scores |->
                      <<scores[i][1], FDiv(scores[i][2], max_score)>>]
             ELSE scores

\* A model scorer that skips the sections of fewer than ten words without
\* giving them a score.
ScoreSectionsModelSkippingShort(sections, abstract, cosine) ==
    SelectSeq(Normalize(RawModelScores(sections, abstract, cosine)),
              LAMBDA e : ~TooShort(DictGet(sections, e[1])))

\* SectionScorer.score_sections_model
ScoreSectionsModel(sections, abstract, cosine) ==
    Normalize(RawModelScores(sections, abstract, cosine))

\* The sum of the sources, not divided by their number.
SumOfSources(score_sources) ==
    FSum([i \in DOMAIN score_sources |-> score_sources[i][2]],
         DOMAIN score_sources)

\* Line 279: sum(score_sources.values()) / len(score_sources)
MeanOfSources(score_sources) ==
    FDiv(FSum([i \in DOMAIN score_sources |-> score_sources[i][2]],
              DOMAIN score_sources),
         Float(Len(score_sources), 1))

\* Lines 268-274: the sources recorded for one title.
ScoreSources(title, model_scores, feedback_scores, use_model, use_feedback) ==
    LET m == IF use_model /\ DictHas(model_scores, title)
             THEN <<<<"model", DictGet(model_scores, title)>>>> ELSE <<>>
        f == IF use_feedback /\ DictHas(feedback_scores, title)
             THEN <<<<"feedback", DictGet(feedback_scores, title)>>>> ELSE <<>>
    IN  m \o f

\* Lines 266-286: one entry per title of sections.
CombineScores(sections, model_scores, feedback_scores, use_model, use_feedback) ==
    [i \in DOMAIN sections |->
        LET score_sources == ScoreSources(sections[i][1], model_scores,
                                 feedback_scores, use_model, use_feedback)
        IN  IF score_sources # <<>>
            THEN <<sections[i][1],
                   [score |-> MeanOfSources(score_sources),
                    sources |-> score_sources]>>
            ELSE <<sections[i][1],
                   [score |-> FHalf, sources |-> <<<<"default", FHalf>>>>]>>]

\* A scorer that consults the feedback whether or not it was asked to.
ScoreSectionsFeedbackAlways(store, paper_id, sections, abstract, use_model, use_feedback, cosine) ==
    CombineScores(sections,
        IF use_model THEN ScoreSectionsModel(sections, abstract, cosine)
        ELSE EmptyDict,
        ScoreSectionsUserFeedback(store, paper_id, sections),
        use_model, TRUE)

\* SectionScorer.score_sections
ScoreSections(store, paper_id, sections, abstract, use_model, use_feedback, cosine) ==
    CombineScores(sections,
        IF use_model THEN ScoreSectionsModel(sections, abstract, cosine)
        ELSE EmptyDict,
        IF use_feedback THEN ScoreSectionsUserFeedback(store, paper_id, sections)
        ELSE EmptyDict,
        use_model, use_feedback)

(***************************************************************************)
(* Inputs of the scorer.                                                   *)
(***************************************************************************)
PaperName == <<"p1", "p2", "p3", "p4">>
PaperIds == {PaperName[i] : i \in 1..NumPapers}

title_Abstract ==
    <<"A", "b", "s", "t", "r", "a", "c", "t">>
title_Introduction ==
    <<"I", "n", "t", "r", "o", "d", "u", "c", "t", "i", "o", "n">>
title_Methods ==
    <<"M", "e", "t", "h", "o", "d", "s">>
text_short ==
    <<"s", "h", "o", "r", "t">>
\* ten words, none of the keywords
text_long1 ==
    <<"w", "e", " ", "a", "s", "k", " ", "h", "o", "w", " ", "a", " ", "r",
    "e", "a", "d", "e", "r", " ", "i", "s", " ", "t", "o", " ", "r", "a",
    "n", "k", " ", "a", " ", "p", "a", "p", "e", "r">>
\* ten words, two of them keywords
text_long2 ==
    <<"a", " ", "m", "e", "t", "h", "o", "d", " ", "a", "n", "d", " ", "a",
    " ", "r", "e", "s", "u", "l", "t", " ", "s", "o", " ", "w", "e", " ",
    "r", "a", "n", " ", "i", "t", " ", "o", "n">>
\* an abstract passed by the caller
text_abstract ==
    <<"r", "a", "n", "k", "i", "n", "g", " ", "s", "e", "c", "t", "i", "o",
    "n", "s">>
text_empty == <<>>

RatedTitles == {title_Abstract, title_Methods}
FeedbackScores == {Float(0, 1), Float(9, 10)}
\* the (section_title, score) pairs add_user_feedback is called with
Ratings ==
    {<<title_Abstract, Float(9, 10)>>} \cup
    {<<title_Methods, score>> : score \in FeedbackScores}
\* cosines the encoder can produce for two different texts
SimValues == {Float(-1, 2), Float(1, 2), Float(1, 1)}

\* The entries a sections dict is built from.
SectionEntries ==
    {<<title_Abstract, text_empty>>, <<title_Abstract, text_long1>>,
     <<title_Introduction, text_short>>, <<title_Introduction, text_long1>>,
     <<title_Methods, text_long2>>}
LongTexts == {e[2] : e \in {x \in SectionEntries : ~TooShort(x[2])}}

DistinctKeys(d) == \A i, j \in DOMAIN d : d[i][1] = d[j][1] => i = j

RECURSIVE SectionsOfLen(_)
SectionsOfLen(n) ==
    IF n = 0 THEN {<<>>}
    ELSE {Append(d, e) : d \in SectionsOfLen(n - 1), e \in SectionEntries}

\* The sections dicts passed to the scorer: at most MaxSections entries.
SectionsInputs ==
    {d \in UNION {SectionsOfLen(n) : n \in 0..MaxSections} : DistinctKeys(d)}
AbstractInputs == {None, Some(text_abstract)}

\* score_sections_user_feedback reads the titles of sections only: the dicts it
\* is called with hold one text per title, the titles in one order.
TitleRank(title) ==
    CASE title = title_Abstract -> 1
      [] title = title_Introduction -> 2
      [] title = title_Methods -> 3
FeedbackSections ==
    {d \in SectionsInputs :
        /\ \A i \in DOMAIN d :
              d[i] \in {<<title_Abstract, text_long1>>,
                        <<title_Introduction, text_short>>,
                        <<title_Methods, text_long2>>}
        /\ \A i, j \in DOMAIN d : i < j => TitleRank(d[i][1]) < TitleRank(d[j][1])}

\* The texts compute_similarity is called on with the reference text.
ComparedTexts(sections, abstract) ==
    LET ref == FindAbstract(sections, abstract)
    IN  IF ref # None /\ ref[1] # <<>>
        THEN {sections[i][2] : i \in DOMAIN sections} \cap (LongTexts \ {ref[1]})
        ELSE {}

\* The encoder's answers in one call: a cosine for each text it is asked about.
Cosines(texts) ==
    {c \in [LongTexts -> SimValues] : \A t \in LongTexts \ texts : c[t] = FOne}

NoArgs ==
    [paper_id |-> "p1", sections |-> <<>>, abstract |-> None,
     cosine |-> [t \in LongTexts |-> FOne], encoder |-> "ok"]

\* The arguments of the scoring calls of one run.
ScoringArgs ==
    {[paper_id |-> p, sections |-> d, abstract |-> a, cosine |-> c,
      encoder |-> "ok"] :
        p \in PaperIds, d \in SectionsInputs, a \in AbstractInputs,
        c \in Cosines(LongTexts)}

\* The encoder of a run: it works, AutoTokenizer/AutoModel.from_pretrained
\* raises (_load_models), or the tokenizer or the model raises on a text.
Encoders == {"ok", "load_error", "compute_error"}

\* The arguments of the scoring calls of a run whose encoder may be broken.
EncoderArgs ==
    {[paper_id |-> p, sections |-> d, abstract |-> a,
      cosine |-> [t \in LongTexts |-> FOne], encoder |-> e] :
        p \in PaperIds, d \in SectionsInputs, a \in AbstractInputs,
        e \in Encoders}

(***************************************************************************)
(* The scorer's operations.                                                *)
(***************************************************************************)
NoPdf ==
    [openable |-> FALSE, path |-> "paper.pdf", pages |-> <<>>,
     metadata |-> [title |-> "", author |-> ""]]

\* The feedback file as SectionScorer.__init__ finds it.
InitialFiles ==
    {NoFile, CorruptFile, JsonDump(PyList), JsonDump(PyDict(EmptyMap)),
     JsonDump(PyDict(MapSet(EmptyMap, "p1", EmptyMap)))}

\* A SectionScorer is constructed on the feedback file.
Construct(readable) ==
    /\ user_feedback = LoadUserFeedback(feedback_file, readable)
    /\ io_failures = IF readable THEN 0 ELSE 1
    /\ last = [op |-> "__init__", readable |-> readable]

Init ==
    /\ feedback_file \in InitialFiles
    /\ \E readable \in BOOLEAN : Construct(readable)
    /\ args = NoArgs
    /\ pdf = NoPdf
    /\ document = None

\* A new SectionScorer is constructed on the same file (the next session).
NewScorer(readable) ==
    /\ readable \/ io_failures < MaxIoFailures
    /\ user_feedback' = LoadUserFeedback(feedback_file, readable)
    /\ io_failures' = IF readable THEN io_failures ELSE io_failures + 1
    /\ last' = [op |-> "__init__", readable |-> readable]
    /\ UNCHANGED <<feedback_file, pdf, document, args>>

\* Was the previous call this very add_user_feedback, completed, with the
\* storage behaving the same way?
SameAdd(paper_id, section_title, score, outcome) ==
    /\ last.op = "add_user_feedback"
    /\ ~last.raised
    /\ last.outcome = outcome
    /\ last.paper_id = paper_id
    /\ last.section_title = section_title
    /\ last.score = score

\* durable is the rating a constructor would have loaded for the key from the
\* file as the call found it.
AddUserFeedback(paper_id, section_title, score, outcome) ==
    /\ outcome = "ok" \/ io_failures < MaxIoFailures
    /\ IF user_feedback.type = "dict"
       THEN /\ user_feedback' = Upsert(user_feedback, paper_id, section_title, score)
            /\ feedback_file' = SaveUserFeedback(user_feedback', feedback_file, outcome)
            /\ io_failures' = IF outcome = "ok" THEN io_failures ELSE io_failures + 1
            /\ last' = [op |-> "add_user_feedback", paper_id |-> paper_id,
                        section_title |-> section_title, score |-> score,
                        outcome |-> outcome, raised |-> FALSE, returned |-> TRUE,
                        repeat |-> SameAdd(paper_id, section_title, score, outcome),
                        durable |-> StoredRating(
                                        LoadUserFeedback(feedback_file, TRUE),
                                        paper_id, section_title)]
       ELSE \* self.user_feedback[paper_id] = {} raises TypeError on a list
            /\ outcome = "ok"
            /\ last' = [op |-> "add_user_feedback", paper_id |-> paper_id,
                        section_title |-> section_title, score |-> score,
                        outcome |-> "none", raised |-> TRUE, returned |-> FALSE,
                        repeat |-> FALSE,
                        durable |-> StoredRating(
                                        LoadUserFeedback(feedback_file, TRUE),
                                        paper_id, section_title)]
            /\ UNCHANGED <<user_feedback, feedback_file, io_failures>>
    /\ UNCHANGED <<pdf, document, args>>

\* The rating the previous call stored for this paper, when that call was a
\* completed add_user_feedback for it.
JustAdded(paper_id) ==
    IF last.op = "add_user_feedback" /\ ~last.raised /\ last.paper_id = paper_id
    THEN Some(<<last.section_title, last.score>>)
    ELSE None

CallScoreSectionsUserFeedback(paper_id, sections) ==
    /\ last' = [op |-> "score_sections_user_feedback", paper_id |-> paper_id,
                sections |-> sections, after_add |-> JustAdded(paper_id),
                result |-> ScoreSectionsUserFeedback(user_feedback, paper_id,
                                                     sections)]
    /\ user_feedback' = FeedbackAfterLookup(user_feedback, paper_id)
    /\ UNCHANGED <<feedback_file, pdf, document, io_failures, args>>

Next ==
    \/ \E readable \in BOOLEAN : NewScorer(readable)
    \/ \E paper_id \in PaperIds, rating \in Ratings,
          outcome \in {"ok", "open", "write"} :
          AddUserFeedback(paper_id, rating[1], rating[2], outcome)
    \/ \E paper_id \in PaperIds, sections \in FeedbackSections :
          CallScoreSectionsUserFeedback(paper_id, sections)

Spec == Init /\ [][Next]_vars

\* The sessions of a scorer whose scoring calls pass one sections dict that
\* holds both rated titles.
RatedSections ==
    <<<<title_Abstract, text_long1>>, <<title_Methods, text_long2>>>>

NextDurable ==
    \/ \E readable \in BOOLEAN : NewScorer(readable)
    \/ \E paper_id \in PaperIds, rating \in Ratings,
          outcome \in {"ok", "open", "write"} :
          AddUserFeedback(paper_id, rating[1], rating[2], outcome)
    \/ \E paper_id \in PaperIds :
          CallScoreSectionsUserFeedback(paper_id, RatedSections)

SpecDurable == Init /\ [][NextDurable]_vars

(***************************************************************************)
(* Scoring.  The arguments of a run's scoring calls and the feedback the   *)
(* scorer loads are drawn at its start.                                    *)
(***************************************************************************)
\* The stores earlier sessions can have left in the file: what up to
\* MaxRatings calls of add_user_feedback build from the empty store.
RECURSIVE StoresAfter(_)
StoresAfter(n) ==
    IF n = 0 THEN {PyDict(EmptyMap)}
    ELSE StoresAfter(n - 1) \cup
         {Upsert(s, p, t, Float(9, 10)) :
             s \in StoresAfter(n - 1), p \in PaperIds, t \in RatedTitles}

InitScore ==
    /\ feedback_file \in InitialFiles \cup {JsonDump(s) : s \in StoresAfter(MaxRatings)}
    /\ Construct(TRUE)
    /\ args \in {a \in ScoringArgs :
                    a.cosine \in Cosines(ComparedTexts(a.sections, a.abstract))}
    /\ pdf = NoPdf
    /\ document = None

CallScoreSectionsModel ==
    /\ last' = IF ModelRaises(args.sections, args.abstract, args.encoder)
               THEN [op |-> "score_sections_model", raised |-> TRUE]
               ELSE [op |-> "score_sections_model", raised |-> FALSE,
                     path |-> ScoringPath(args.sections, args.abstract),
                     raw |-> RawModelScores(args.sections, args.abstract,
                                            args.cosine),
                     result |-> ScoreSectionsModel(args.sections, args.abstract,
                                                   args.cosine)]
    /\ UNCHANGED <<user_feedback, feedback_file, pdf, document, io_failures, args>>

\* score_sections calls score_sections_model first (lines 257-259) and catches
\* nothing.
CallScoreSections(use_model, use_feedback) ==
    /\ last' = IF use_model
                  /\ ModelRaises(args.sections, args.abstract, args.encoder)
               THEN [op |-> "score_sections", use_model |-> use_model,
                     use_feedback |-> use_feedback, raised |-> TRUE]
               ELSE [op |-> "score_sections", use_model |-> use_model,
                     use_feedback |-> use_feedback, raised |-> FALSE,
                     result |-> ScoreSections(user_feedback, args.paper_id,
                                   args.sections, args.abstract, use_model,
                                   use_feedback, args.cosine)]
    /\ user_feedback' = IF use_feedback /\ ~last'.raised
                        THEN FeedbackAfterLookup(user_feedback, args.paper_id)
                        ELSE user_feedback
    /\ UNCHANGED <<feedback_file, pdf, document, io_failures, args>>

NextScore ==
    \/ CallScoreSectionsModel
    \/ \E use_model, use_feedback \in BOOLEAN :
          CallScoreSections(use_model, use_feedback)

SpecScore == InitScore /\ [][NextScore]_vars

(***************************************************************************)
(* Two SectionScorer instances on one feedback file.  Each instance has its *)
(* own self.user_feedback, loaded once by its constructor; user_feedback is *)
(* here the function from instance to that dict.  Calls interleave; nothing *)
(* in the class locks the file or reloads it before a save.                *)
(***************************************************************************)
Scorers == {"first", "second"}

\* The rating every call of this specification stores.
SharedRating == <<title_Abstract, Float(9, 10)>>

InitShared ==
    /\ feedback_file \in InitialFiles
    /\ user_feedback = [s \in Scorers |-> LoadUserFeedback(feedback_file, TRUE)]
    /\ io_failures = 0
    /\ last = [op |-> "__init__", scorer |-> "second", readable |-> TRUE]
    /\ args = NoArgs
    /\ pdf = NoPdf
    /\ document = None

\* One instance is constructed again on the file as it is now.
ScorerInit(scorer) ==
    /\ user_feedback' = [user_feedback EXCEPT
                             ![scorer] = LoadUserFeedback(feedback_file, TRUE)]
    /\ last' = [op |-> "__init__", scorer |-> scorer, readable |-> TRUE]
    /\ UNCHANGED <<feedback_file, io_failures, pdf, document, args>>

\* add_user_feedback of one instance; before is the file as the call found it.
ScorerAddUserFeedback(scorer, paper_id, section_title, score, outcome) ==
    /\ outcome = "ok" \/ io_failures < MaxIoFailures
    /\ IF user_feedback[scorer].type = "dict"
       THEN /\ user_feedback' = [user_feedback EXCEPT
                   ![scorer] = Upsert(user_feedback[scorer], paper_id,
                                      section_title, score)]
            /\ feedback_file' = SaveUserFeedback(user_feedback'[scorer],
                                                 feedback_file, outcome)
            /\ io_failures' = IF outcome = "ok" THEN io_failures ELSE io_failures + 1
            /\ last' = [op |-> "add_user_feedback", scorer |-> scorer,
                        paper_id |-> paper_id, section_title |-> section_title,
                        score |-> score, outcome |-> outcome, raised |-> FALSE,
                        returned |-> TRUE, before |-> feedback_file]
       ELSE /\ outcome = "ok"
            /\ last' = [op |-> "add_user_feedback", scorer |-> scorer,
                        paper_id |-> paper_id, section_title |-> section_title,
                        score |-> score, outcome |-> "none", raised |-> TRUE,
                        returned |-> FALSE, before |-> feedback_file]
            /\ UNCHANGED <<user_feedback, feedback_file, io_failures>>
    /\ UNCHANGED <<pdf, document, args>>

NextShared ==
    \/ \E scorer \in Scorers : ScorerInit(scorer)
    \/ \E scorer \in Scorers, paper_id \in PaperIds,
          outcome \in {"ok", "open", "write"} :
          ScorerAddUserFeedback(scorer, paper_id, SharedRating[1],
                                SharedRating[2], outcome)

SpecShared == InitShared /\ [][NextShared]_vars

(***************************************************************************)
(* score_sections_model over every choice of reference text: sections of   *)
(* up to one entry per title, with the abstract missing, empty or given.   *)
(***************************************************************************)
ReferenceArgs(entries, abstracts) ==
    {[paper_id |-> "p1", sections |-> d, abstract |-> a, cosine |-> c,
      encoder |-> "ok"] :
        d \in {x \in UNION {SectionsOfLen(n) :
                                n \in 0..Cardinality({e[1] : e \in entries})} :
                  DistinctKeys(x)},
        a \in abstracts,
        c \in [LongTexts -> SimValues]}

InitReference ==
    /\ feedback_file = NoFile
    /\ Construct(TRUE)
    /\ args \in ReferenceArgs(SectionEntries,
                              {None, Some(text_empty), Some(text_abstract)})
    /\ pdf = NoPdf
    /\ document = None

NextReference == CallScoreSectionsModel

SpecReference == InitReference /\ [][NextReference]_vars

(***************************************************************************)
(* The three scoring calls of one scorer over every loaded store.          *)
(***************************************************************************)
InitFrame ==
    /\ feedback_file \in InitialFiles \cup {JsonDump(s) : s \in StoresAfter(MaxRatings)}
    /\ Construct(TRUE)
    /\ args \in {a \in EncoderArgs : a.encoder = "ok"}
    /\ pdf = NoPdf
    /\ document = None

NextFrame ==
    \/ CallScoreSectionsModel
    \/ \E use_model, use_feedback \in BOOLEAN :
          CallScoreSections(use_model, use_feedback)
    \/ CallScoreSectionsUserFeedback(args.paper_id, args.sections)

SpecFrame == InitFrame /\ [][NextFrame]_vars

(***************************************************************************)
(* Scoring with an encoder that may fail.                                  *)
(***************************************************************************)
InitEncoder ==
    /\ feedback_file = NoFile
    /\ Construct(TRUE)
    /\ args \in EncoderArgs
    /\ pdf = NoPdf
    /\ document = None

SpecEncoder == InitEncoder /\ [][NextScore]_vars

(***************************************************************************)
(* PDFExtractor.  A PDF is its pages and its metadata; a page is the       *)
(* blocks page.get_text("dict") lists, in that order, and its images.  A   *)
(* text block has "lines", an image block has none.  A line is its spans   *)
(* and its bounding box <<x0, y0, x1, y1>>: bbox[1] and bbox[3] of the     *)
(* code are bbox[2] and bbox[4] here.  Page numbers are 0-based as in the  *)
(* code, sequences 1-based.                                                *)
(***************************************************************************)
RECURSIVE Flatten(_)
Flatten(seqs) == IF seqs = <<>> THEN <<>> ELSE Head(seqs) \o Flatten(Tail(seqs))

\* "lines" in block
TextBlocks(page) ==
    LET HasLines(block) == "lines" \in DOMAIN block
    IN  SelectSeq(page.blocks, HasLines)

\* for block in blocks: if "lines" in block: for line in block["lines"]
PageLines(page) ==
    LET text_blocks == TextBlocks(page)
    IN  Flatten([b \in DOMAIN text_blocks |-> text_blocks[b].lines])

\* line_text: the texts of the spans, concatenated
SpanTexts(line) == Flatten([i \in DOMAIN line.spans |-> line.spans[i].text])

\* page.get_text(): each line of the page followed by a newline
GetText(page) ==
    LET lines == PageLines(page)
    IN  Flatten([i \in DOMAIN lines |-> SpanTexts(lines[i]) \o <<"\n">>])

\* PDFExtractor.extract_text, on self.document after the load it attempts
ExtractText(doc) ==
    IF doc = None THEN <<>>
    ELSE Flatten([p \in DOMAIN doc[1].pages |-> GetText(doc[1].pages[p])])

StructuredLine(line) ==
    [text |-> SpanTexts(line), bbox |-> line.bbox,
     fonts |-> {line.spans[i].font : i \in DOMAIN line.spans},
     sizes |-> {line.spans[i].size : i \in DOMAIN line.spans}]

StructuredPage(page) ==
    LET text_blocks == TextBlocks(page)
    IN  [b \in DOMAIN text_blocks |->
            [bbox |-> text_blocks[b].bbox,
             lines |-> [i \in DOMAIN text_blocks[b].lines |->
                           StructuredLine(text_blocks[b].lines[i])]]]

\* PDFExtractor.extract_structured_text
ExtractStructuredText(doc) ==
    IF doc = None THEN <<>>
    ELSE [p \in DOMAIN doc[1].pages |-> StructuredPage(doc[1].pages[p])]

\* The lines of structured_pages with their page_idx, in the order the loops
\* of identify_potential_headings visit them.
StructuredLines(structured_pages) ==
    Flatten([p \in DOMAIN structured_pages |->
        Flatten([b \in DOMAIN structured_pages[p] |->
            [i \in DOMAIN structured_pages[p][b].lines |->
                [page |-> p - 1, line |-> structured_pages[p][b].lines[i]]]])])

\* all_sizes.count(size)
SizeCount(structured_pages, size) ==
    LET entries == StructuredLines(structured_pages)
    IN  Cardinality({i \in DOMAIN entries : size \in entries[i].line.sizes})

\* set(all_sizes)
AllSizes(structured_pages) ==
    LET entries == StructuredLines(structured_pages)
    IN  UNION {entries[i].line.sizes : i \in DOMAIN entries}

\* max(set(all_sizes), key=all_sizes.count): among sizes of equal count the
\* one the set happens to iterate first, so any of them.
MostCommonSizes(structured_pages) ==
    {s \in AllSizes(structured_pages) :
        \A t \in AllSizes(structured_pages) :
            SizeCount(structured_pages, t) <= SizeCount(structured_pages, s)}

\* Every size that reaches the most common one counts as a heading size.
AtLeastCommonSize(size, most_common_size) == size >= most_common_size

\* size > most_common_size * 1.1
IsHeadingSize(size, most_common_size) == size * 10 > most_common_size * 11

MaxOf(sizes) == CHOOSE s \in sizes : \A t \in sizes : t <= s

\* Candidates with a text already seen are left out.
PotentialHeadingsDeduplicated(structured_pages, most_common_size) ==
    LET IsHeading(entry) ==
            \E size \in entry.line.sizes : IsHeadingSize(size, most_common_size)
        all == SelectSeq(StructuredLines(structured_pages), IsHeading)
        kept == {i \in DOMAIN all :
                    \A j \in 1..(i - 1) : all[j].line.text # all[i].line.text}
        hits == [k \in 1..Cardinality(kept) |->
                    all[CHOOSE i \in kept :
                            Cardinality({j \in kept : j <= i}) = k]]
    IN  [i \in DOMAIN hits |->
            [page |-> hits[i].page, text |-> hits[i].line.text,
             size |-> MaxOf(hits[i].line.sizes), bbox |-> hits[i].line.bbox]]

\* Lines 136-151 for one most_common_size.
PotentialHeadings(structured_pages, most_common_size) ==
    LET IsHeading(entry) ==
            \E size \in entry.line.sizes : IsHeadingSize(size, most_common_size)
        hits == SelectSeq(StructuredLines(structured_pages), IsHeading)
    IN  [i \in DOMAIN hits |->
            [page |-> hits[i].page, text |-> hits[i].line.text,
             size |-> MaxOf(hits[i].line.sizes), bbox |-> hits[i].line.bbox]]

\* PDFExtractor.identify_potential_headings: the lists it can return.
IdentifyPotentialHeadings(structured_pages) ==
    IF structured_pages = <<>> \/ AllSizes(structured_pages) = {}
    THEN {<<>>}
    ELSE {PotentialHeadings(structured_pages, s) :
             s \in MostCommonSizes(structured_pages)}

\* key=lambda h: (h["page"], h["bbox"][1])
KeyLess(h1, h2) ==
    \/ h1.page < h2.page
    \/ h1.page = h2.page /\ h1.bbox[2] < h2.bbox[2]

\* x goes after the elements of the sorted s that are not greater than it.
InsertHeading(s, x) ==
    LET k == Cardinality({i \in DOMAIN s : ~KeyLess(x, s[i])})
    IN  SubSeq(s, 1, k) \o <<x>> \o SubSeq(s, k + 1, Len(s))

\* sorted(potential_headings, key=...), a stable sort
RECURSIVE SortHeadings(_)
SortHeadings(hs) ==
    IF hs = <<>> THEN <<>>
    ELSE InsertHeading(SortHeadings(SubSeq(hs, 1, Len(hs) - 1)), hs[Len(hs)])

\* Lines 219-221 and 231-233: each span's text and a space, then a newline.
SectionLineText(line) ==
    Flatten([i \in DOMAIN line.spans |-> line.spans[i].text \o <<" ">>])
        \o <<"\n">>

\* line["bbox"][1] >= start_y
BelowHeading(line, start_y) == line.bbox[2] >= start_y

\* Every line of the ending page is taken.
AnyLineOfPage(line, end_y) == TRUE

\* line["bbox"][3] <= end_y
AboveNextHeading(line, end_y) == line.bbox[4] <= end_y

\* float('inf')
Infinity == None

\* Lines 208-237: what one page adds to section_text.
PageSectionText(page, page_num, start_page, start_y, end_page, end_y) ==
    LET Below(line) == BelowHeading(line, start_y)
        Above(line) == AboveNextHeading(line, end_y[1])
        below == SelectSeq(PageLines(page), Below)
        above == SelectSeq(PageLines(page), Above)
    IN  IF page_num = start_page
        THEN Flatten([i \in DOMAIN below |-> SectionLineText(below[i])])
        ELSE IF page_num = end_page /\ end_y # Infinity
        THEN Flatten([i \in DOMAIN above |-> SectionLineText(above[i])])
        ELSE GetText(page)

\* Lines 191-237: section_text of the i-th sorted heading.
SectionText(pages, sorted_headings, i) ==
    LET start_page == sorted_headings[i].page
        start_y == sorted_headings[i].bbox[4]
        is_last == i = Len(sorted_headings)
        end_page == IF is_last THEN Len(pages) - 1
                    ELSE sorted_headings[i + 1].page
        end_y == IF is_last THEN Infinity
                 ELSE Some(sorted_headings[i + 1].bbox[2])
    IN  Flatten([k \in 1..(end_page - start_page + 1) |->
            PageSectionText(pages[start_page + k], start_page + k - 1,
                            start_page, start_y, end_page, end_y)])

\* Lines 182-239: sections after the first n sorted headings.
RECURSIVE SectionsUpTo(_, _, _)
SectionsUpTo(pages, sorted_headings, n) ==
    IF n = 0 THEN EmptyDict
    ELSE LET sections == SectionsUpTo(pages, sorted_headings, n - 1)
             heading_text == Strip(sorted_headings[n].text)
         IN  IF heading_text = <<>> THEN sections
             ELSE DictSet(sections, heading_text,
                          Strip(SectionText(pages, sorted_headings, n)))

str_Document ==
    <<"D", "o", "c", "u", "m", "e", "n", "t">>

\* PDFExtractor.extract_sections, potential_headings being what
\* identify_potential_headings returned to it.
ExtractSections(doc, potential_headings) ==
    IF doc = None THEN EmptyDict
    ELSE LET sorted_headings == SortHeadings(potential_headings)
         IN  IF sorted_headings = <<>>
             THEN DictSet(EmptyDict, str_Document, ExtractText(doc))
             ELSE SectionsUpTo(doc[1].pages, sorted_headings,
                               Len(sorted_headings))

\* self.document.metadata.get(key, "")
MetadataGet(metadata, key) ==
    IF key \in DOMAIN metadata THEN metadata[key] ELSE ""

\* Lines 269-286: the images of the document that can be extracted.
PotentialFigures(pages) ==
    Flatten([p \in DOMAIN pages |->
        LET Extractable(img) == img.extractable
            imgs == SelectSeq(pages[p].images, Extractable)
        IN  [i \in DOMAIN imgs |->
                [page |-> p - 1, xref |-> imgs[i].xref, bbox |-> imgs[i].bbox]]])

\* PDFExtractor.get_document_structure
GetDocumentStructure(doc, potential_headings) ==
    IF doc = None THEN EmptyDict
    ELSE <<
        <<"metadata",
          [title |-> MetadataGet(doc[1].metadata, "title"),
           author |-> MetadataGet(doc[1].metadata, "author"),
           subject |-> MetadataGet(doc[1].metadata, "subject"),
           keywords |-> MetadataGet(doc[1].metadata, "keywords"),
           page_count |-> Len(doc[1].pages),
           file_path |-> doc[1].path]>>,
        <<"sections", ExtractSections(doc, potential_headings)>>,
        <<"potential_figures", PotentialFigures(doc[1].pages)>> >>

(***************************************************************************)
(* The PDFs an extractor is constructed on.                                *)
(***************************************************************************)
BodySize == 10
HeadingSize == 14

Digit == <<"0", "1", "2", "3", "4", "5">>
Letter == <<"a", "b", "c", "d", "e", "f">>

\* The text of the body line in a row of a page: no two body lines of a
\* document share it.
BodyText(page_num, row) == <<Digit[page_num + 1], Letter[row + 1]>>

heading_A == <<"A", " ">>
heading_B == <<"B">>
heading_blank == <<" ">>

Line(text, size, row) ==
    [spans |-> <<[text |-> text, font |-> "Times", size |-> size]>>,
     bbox |-> <<0, 20 * row, 100, 20 * row + 12>>]

\* A page is laid out as LinesPerPage rows; heads says which of the first
\* rows hold a heading and swapped whether the text layer lists the second row
\* before the first.  A figure page has no text, only images.
TextLayouts ==
    {[heads |-> h, swapped |-> FALSE] :
        h \in {<<>>, <<Some(heading_A)>>, <<Some(heading_B)>>,
               <<Some(heading_blank)>>, <<None, Some(heading_A)>>,
               <<None, Some(heading_B)>>,
               <<Some(heading_A), Some(heading_B)>>}}
    \cup {[heads |-> <<Some(heading_A), Some(heading_B)>>, swapped |-> TRUE]}

PageLayouts == TextLayouts \cup {[figures |-> TRUE]}

LayoutLine(layout, page_num, row) ==
    IF row < Len(layout.heads) /\ layout.heads[row + 1] # None
    THEN Line(layout.heads[row + 1][1], HeadingSize, row)
    ELSE Line(BodyText(page_num, row), BodySize, row)

ListedRow(layout, i) ==
    IF layout.swapped /\ i <= 2 THEN 2 - i ELSE i - 1

PageOf(layout, page_num) ==
    IF "figures" \in DOMAIN layout
    THEN [blocks |-> <<[bbox |-> <<0, 0, 100, 100>>, image |-> "png"]>>,
          images |-> <<[xref |-> 7, bbox |-> <<0, 0, 100, 100>>,
                        extractable |-> TRUE],
                       [xref |-> 8, bbox |-> <<0, 0, 100, 100>>,
                        extractable |-> FALSE]>>]
    ELSE [blocks |-> <<[bbox |-> <<0, 0, 100, 20 * LinesPerPage>>,
                        lines |-> [i \in 1..LinesPerPage |->
                            LayoutLine(layout, page_num,
                                       ListedRow(layout, i))]]>>,
          images |-> <<>>]

Pdf(pages) ==
    [openable |-> TRUE, path |-> "paper.pdf", pages |-> pages,
     metadata |-> [title |-> "Paper", author |-> ""]]

Pdfs ==
    {NoPdf} \cup
    UNION {{Pdf([p \in 1..n |-> PageOf(layouts[p], p - 1)]) :
               layouts \in [1..n -> PageLayouts]} : n \in 1..MaxPages}

(***************************************************************************)
(* The operations of a PDFExtractor.                                       *)
(***************************************************************************)
InitPdf ==
    /\ pdf \in Pdfs
    /\ document = None
    /\ last = [op |-> "__init__"]
    /\ user_feedback = PyDict(EmptyMap)
    /\ feedback_file = NoFile
    /\ io_failures = 0
    /\ args = NoArgs

\* fitz.open gives a document whatever the file is.
OpenedAnyway == Some(pdf)

\* fitz.open(self.pdf_path): the document, when the file can be opened
Opened == IF pdf.openable THEN Some(pdf) ELSE None

\* self.document after "if not self.document: success = self.load_document()"
Loaded == IF document # None THEN document ELSE Opened

LoadDocument ==
    /\ document' = IF pdf.openable THEN Opened ELSE document
    /\ last' = [op |-> "load_document", returned |-> pdf.openable]
    /\ UNCHANGED <<pdf, user_feedback, feedback_file, io_failures, args>>

CallExtractText ==
    /\ document' = Loaded
    /\ last' = [op |-> "extract_text", result |-> ExtractText(Loaded)]
    /\ UNCHANGED <<pdf, user_feedback, feedback_file, io_failures, args>>

CallExtractStructuredText ==
    /\ document' = Loaded
    /\ last' = [op |-> "extract_structured_text",
                result |-> ExtractStructuredText(Loaded)]
    /\ UNCHANGED <<pdf, user_feedback, feedback_file, io_failures, args>>

\* identify_potential_headings on the pages extract_structured_text returned
CallIdentifyPotentialHeadings ==
    /\ last.op = "extract_structured_text"
    /\ \E potential_headings \in IdentifyPotentialHeadings(last.result) :
          last' = [op |-> "identify_potential_headings",
                   structured_pages |-> last.result,
                   result |-> potential_headings]
    /\ UNCHANGED <<pdf, document, user_feedback, feedback_file, io_failures, args>>

CallExtractSections ==
    /\ document' = Loaded
    /\ \E potential_headings \in
             IdentifyPotentialHeadings(ExtractStructuredText(Loaded)) :
          last' = [op |-> "extract_sections",
                   potential_headings |-> potential_headings,
                   result |-> ExtractSections(Loaded, potential_headings)]
    /\ UNCHANGED <<pdf, user_feedback, feedback_file, io_failures, args>>

CallGetDocumentStructure ==
    /\ document' = Loaded
    /\ \E potential_headings \in
             IdentifyPotentialHeadings(ExtractStructuredText(Loaded)) :
          last' = [op |-> "get_document_structure",
                   result |-> GetDocumentStructure(Loaded, potential_headings)]
    /\ UNCHANGED <<pdf, user_feedback, feedback_file, io_failures, args>>

NextPdf ==
    \/ LoadDocument
    \/ CallExtractText
    \/ CallExtractStructuredText
    \/ CallIdentifyPotentialHeadings
    \/ CallExtractSections
    \/ CallGetDocumentStructure

SpecPdf == InitPdf /\ [][NextPdf]_vars

(***************************************************************************)
(* TerminologyExtractor (src/extractors/terminology_extractor.py).  spaCy  *)
(* is outside the repository: the sentences it splits a text into are an   *)
(* input, and the text is those sentences one after the other.             *)
(***************************************************************************)
MaxCandidates == 3
MaxTopN == 3
MaxSentences == 2
MaxTerms == 3

\* s.count(sub): the non-overlapping occurrences found scanning from the left;
\* the empty string occurs len(s) + 1 times.
RECURSIVE CountFrom(_, _, _)
CountFrom(s, sub, i) ==
    IF i + Len(sub) - 1 > Len(s) THEN 0
    ELSE IF SubSeq(s, i, i + Len(sub) - 1) = sub
         THEN 1 + CountFrom(s, sub, i + Len(sub))
         ELSE CountFrom(s, sub, i + 1)

Count(s, sub) == IF sub = <<>> THEN Len(s) + 1 ELSE CountFrom(s, sub, 1)

\* Lines 94-98: the Counter after the loop over the first n candidates; a
\* candidate seen again keeps its place.
RECURSIVE TermCounts(_, _, _)
TermCounts(text_lower, candidate_terms, n) ==
    IF n = 0 THEN EmptyDict
    ELSE DictSet(TermCounts(text_lower, candidate_terms, n - 1),
                 candidate_terms[n],
                 Count(text_lower, Lower(candidate_terms[n])))

\* An insertion that puts an item before the items of equal count.
InsertBeforeTies(sorted, item) ==
    LET k == Cardinality({i \in DOMAIN sorted : sorted[i][2] > item[2]})
    IN  SubSeq(sorted, 1, k) \o <<item>> \o SubSeq(sorted, k + 1, Len(sorted))

\* One step of sorted(items, key=count, reverse=True): the item goes after
\* every item of greater or equal count (the sort is stable).
InsertByCount(sorted, item) ==
    LET k == Cardinality({i \in DOMAIN sorted : sorted[i][2] >= item[2]})
    IN  SubSeq(sorted, 1, k) \o <<item>> \o SubSeq(sorted, k + 1, Len(sorted))

RECURSIVE SortedByCount(_, _)
SortedByCount(items, n) ==
    IF n = 0 THEN <<>>
    ELSE InsertByCount(SortedByCount(items, n - 1), items[n])

\* Counter.most_common(n), n >= 0: heapq.nlargest(n, items, key=count), which
\* is sorted(items, key=count, reverse=True)[:n].
MostCommon(term_counts, n) ==
    LET sorted == SortedByCount(term_counts, Len(term_counts))
    IN  SubSeq(sorted, 1, IF n < Len(sorted) THEN n ELSE Len(sorted))

\* TerminologyExtractor.rank_terms_by_importance
RankTermsByImportance(text, candidate_terms, top_n) ==
    LET term_counts == TermCounts(Lower(text), candidate_terms,
                                  Len(candidate_terms))
        top_terms == MostCommon(term_counts, top_n)
    IN  [i \in DOMAIN top_terms |->
            [term |-> top_terms[i][1], score |-> top_terms[i][2]]]

\* Lines 136-144
patterns(term) ==
    <<term \o <<" ", "i", "s", " ">>,
      term \o <<" ", "a", "r", "e", " ">>,
      term \o <<" ", "r", "e", "f", "e", "r", "s", " ", "t", "o", " ">>,
      term \o <<" ", "i", "s", " ", "d", "e", "f", "i", "n", "e", "d", " ",
                "a", "s", " ">>,
      term \o <<" ", "m", "e", "a", "n", "s", " ">>,
      term \o <<",", " ", "w", "h", "i", "c", "h", " ", "i", "s", " ">>,
      term \o <<" ", "w", "h", "i", "c", "h", " ", "i", "s", " ">>>>

\* A sentence is taken as the definition when it mentions the term.
MentionsTerm(term, sentence_text) ==
    Contains(Lower(term), Lower(sentence_text))

\* Lines 134-149: the sentence contains the term and one of the patterns.
IsDefinition(term, sentence_text) ==
    /\ Contains(Lower(term), Lower(sentence_text))
    /\ \E i \in DOMAIN patterns(term) :
          Contains(Lower(patterns(term)[i]), Lower(sentence_text))

\* Lines 127-152: the first sentence, from the i-th on, that is a definition;
\* "" when there is none.
RECURSIVE FindDefinition(_, _, _)
FindDefinition(sentences, term, i) ==
    IF i > Len(sentences) THEN <<>>
    ELSE LET sentence_text == Strip(sentences[i])
         IN  IF IsDefinition(term, sentence_text) /\ sentence_text # <<>>
             THEN sentence_text
             ELSE FindDefinition(sentences, term, i + 1)

str_Context ==
    <<"C", "o", "n", "t", "e", "x", "t", ":", " ">>

\* Lines 158-162: the first sentence, from the i-th on, of more than five
\* words that contains the term.
RECURSIVE FindContext(_, _, _)
FindContext(sentences, term, i) ==
    IF i > Len(sentences) THEN None
    ELSE LET sentence_text == Strip(sentences[i])
         IN  IF /\ Contains(Lower(term), Lower(sentence_text))
                /\ Len(Split(sentence_text)) > 5
             THEN Some(str_Context \o sentence_text)
             ELSE FindContext(sentences, term, i + 1)

\* TerminologyExtractor.find_term_definitions after the first n terms.
RECURSIVE FindTermDefinitions(_, _, _)
FindTermDefinitions(sentences, terms, n) ==
    IF n = 0 THEN EmptyDict
    ELSE LET definitions == FindTermDefinitions(sentences, terms, n - 1)
             term == terms[n].term
             definition == FindDefinition(sentences, term, 1)
             context == FindContext(sentences, term, 1)
         IN  IF definition # <<>> THEN DictSet(definitions, term, definition)
             ELSE IF context # None THEN DictSet(definitions, term, context[1])
             ELSE definitions

term_nn ==
    <<"n", "n">>
term_NN ==
    <<"N", "N">>
term_n ==
    <<"n">>
term_b ==
    <<"b">>
term_k ==
    <<"k">>
term_empty == <<>>

CandidateTerms == {term_nn, term_NN, term_n, term_b, term_empty}

\* nn, NN and b twice each, n four times
ranked_text1 ==
    <<"n", "n", " ", "b", " ", "N", "N", " ", "b">>
\* nn once (occurrences do not overlap), n three times
ranked_text2 ==
    <<"n", "n", "n", " ", "b">>
ranked_text3 ==
    <<"B", " ", "n">>

RankedTexts == {ranked_text1, ranked_text2, ranked_text3, <<>>}

\* seven words that mention nn and b and define nothing
sent_mention ==
    <<"w", "e", " ", "u", "s", "e", " ", "n", "n", " ", "i", "n", " ", "a",
    " ", "b", " ", "c", ".">>
sent_short ==
    <<"n", "n", " ", "o", "k", ".">>
sent_is ==
    <<"N", "N", " ", "i", "s", " ", "a", " ", "n", "e", "t", ".">>
sent_are ==
    <<"n", "n", " ", "a", "r", "e", " ", "e", ".">>
sent_refers ==
    <<" ", "n", "n", " ", "r", "e", "f", "e", "r", "s", " ", "t", "o", " ",
    "e", ".">>
sent_means ==
    <<"n", "n", " ", "m", "e", "a", "n", "s", " ", "e", ".">>
sent_comma ==
    <<"n", "n", ",", " ", "w", "h", "i", "c", "h", " ", "i", "s", " ", "e",
    ".">>
sent_which ==
    <<"n", "n", " ", "w", "h", "i", "c", "h", " ", "i", "s", " ", "e", ".">>
sent_other ==
    <<"a", " ", "b", " ", "i", "s", " ", "e", ".">>

Sentences ==
    {sent_mention, sent_short, sent_is, sent_are, sent_refers,
     sent_means, sent_comma, sent_which, sent_other}

DefinedTerms == {term_nn, term_b, term_k}

SeqsUpTo(S, n) == UNION {[1..k -> S] : k \in 0..n}

\* "".join of the sentences
RECURSIVE JoinSentences(_, _)
JoinSentences(sentences, n) ==
    IF n = 0 THEN <<>> ELSE JoinSentences(sentences, n - 1) \o sentences[n]

\* The arguments of rank_terms_by_importance.
RankArgs(texts, terms) ==
    {[text |-> t, candidate_terms |-> c, top_n |-> n] :
        t \in texts, c \in SeqsUpTo(terms, MaxCandidates), n \in 0..MaxTopN}

\* The arguments of find_term_definitions; the terms are passed as
\* rank_terms_by_importance returns them (extract_terminology, lines 181-184).
DefinitionArgs(sentences, terms) ==
    {[sentences |-> s,
      terms |-> RankTermsByImportance(JoinSentences(s, Len(s)), c, Len(c))] :
        s \in SeqsUpTo(sentences, MaxSentences) \ {<<>>},
        c \in SeqsUpTo(terms, MaxTerms)}

InitRank ==
    /\ args \in RankArgs(RankedTexts, CandidateTerms)
    /\ last = [op |-> "__init__"]
    /\ user_feedback = PyDict(EmptyMap)
    /\ feedback_file = NoFile
    /\ io_failures = 0
    /\ pdf = NoPdf
    /\ document = None

CallRankTermsByImportance ==
    /\ last' = [op |-> "rank_terms_by_importance",
                result |-> RankTermsByImportance(args.text, args.candidate_terms,
                                                 args.top_n)]
    /\ UNCHANGED <<user_feedback, feedback_file, pdf, document, io_failures, args>>

NextRank == CallRankTermsByImportance

SpecRank == InitRank /\ [][NextRank]_vars

InitDefinitions ==
    /\ args \in DefinitionArgs(Sentences, DefinedTerms)
    /\ last = [op |-> "__init__"]
    /\ user_feedback = PyDict(EmptyMap)
    /\ feedback_file = NoFile
    /\ io_failures = 0
    /\ pdf = NoPdf
    /\ document = None

CallFindTermDefinitions ==
    /\ last' = [op |-> "find_term_definitions",
                result |-> FindTermDefinitions(args.sentences, args.terms,
                                               Len(args.terms))]
    /\ UNCHANGED <<user_feedback, feedback_file, pdf, document, io_failures, args>>

NextDefinitions == CallFindTermDefinitions

SpecDefinitions == InitDefinitions /\ [][NextDefinitions]_vars

(***************************************************************************)
(* SectionScorer.get_important_sentences.                                  *)
(***************************************************************************)
MaxPieces == 2

\* text.split(sep) for a one-character separator: the pieces between the
\* separators, empty ones included.
RECURSIVE SplitOn(_, _, _, _)
SplitOn(s, sep, i, piece) ==
    IF i > Len(s) THEN <<piece>>
    ELSE IF s[i] = sep THEN <<piece>> \o SplitOn(s, sep, i + 1, <<>>)
         ELSE SplitOn(s, sep, i + 1, Append(piece, s[i]))

\* Line 302: the stripped pieces of more than ten characters.
RECURSIVE LongPieces(_, _)
LongPieces(pieces, n) ==
    IF n = 0 THEN <<>>
    ELSE LET rest == LongPieces(pieces, n - 1)
             sentence == Strip(pieces[n])
         IN  IF Len(sentence) > 10 THEN Append(rest, sentence) ELSE rest

MinSentenceWords == 5

\* Lines 315-317: a sentence of fewer than five words is not scored.
Scored(sentence) == Len(Split(sentence)) >= MinSentenceWords

\* One step of sentence_scores.sort(key=score, reverse=True): stable, an item
\* goes after every item of greater or equal score.
InsertByScore(sorted, item) ==
    LET k == Cardinality({i \in DOMAIN sorted : FLeq(item[2], sorted[i][2])})
    IN  SubSeq(sorted, 1, k) \o <<item>> \o SubSeq(sorted, k + 1, Len(sorted))

\* Lines 313-327: the scored sentences among the first n, sorted.
RECURSIVE SentenceScores(_, _, _)
SentenceScores(sentences, cosine, n) ==
    IF n = 0 THEN <<>>
    ELSE LET rest == SentenceScores(sentences, cosine, n - 1)
         IN  IF Scored(sentences[n])
             THEN InsertByScore(rest, <<sentences[n], cosine[sentences[n]]>>)
             ELSE rest

\* SectionScorer.get_important_sentences, top_n >= 0.  cosine[s] is the cosine
\* of the embeddings of the joined text and of the sentence s.
GetImportantSentences(text, top_n, cosine) ==
    LET pieces == SplitOn(text, ".", 1, <<>>)
        sentences == LongPieces(pieces, Len(pieces))
        sentence_scores == SentenceScores(sentences, cosine, Len(sentences))
    IN  IF Len(sentences) <= top_n THEN sentences
        ELSE [i \in 1..(IF top_n < Len(sentence_scores) THEN top_n
                        ELSE Len(sentence_scores)) |-> sentence_scores[i][1]]

\* six words, eleven characters once stripped
piece_six ==
    <<" ", "a", " ", "b", " ", "c", " ", "d", " ", "e", " ", "f">>
piece_seven ==
    <<"w", "e", " ", "r", "a", "n", " ", "i", "t", " ", "o", "n", " ", "a",
    " ", "b", " ", "c">>
\* two words, twelve characters
piece_title ==
    <<"r", "e", "l", "a", "t", "e", "d", " ", "w", "o", "r", "k">>
\* nine characters
piece_short ==
    <<"s", "e", "e", " ", "f", "i", "g", " ", "2">>

Pieces == {piece_six, piece_seven, piece_title, piece_short}

\* The pieces one after the other, each followed by a full stop.
RECURSIVE JoinPieces(_, _)
JoinPieces(pieces, n) ==
    IF n = 0 THEN <<>> ELSE JoinPieces(pieces, n - 1) \o pieces[n] \o <<".">>

SentenceArgs(pieces) ==
    {[text |-> JoinPieces(p, Len(p)), top_n |-> n, cosine |-> c] :
        p \in SeqsUpTo(pieces, MaxPieces), n \in 0..MaxTopN,
        c \in [{Strip(x) : x \in {y \in pieces : Scored(Strip(y))}} -> SimValues]}

InitSentences ==
    /\ args \in SentenceArgs(Pieces)
    /\ last = [op |-> "__init__", readable |-> TRUE]
    /\ user_feedback = PyDict(EmptyMap)
    /\ feedback_file = NoFile
    /\ io_failures = 0
    /\ pdf = NoPdf
    /\ document = None

CallGetImportantSentences ==
    /\ last' = [op |-> "get_important_sentences",
                result |-> GetImportantSentences(args.text, args.top_n,
                                                 args.cosine)]
    /\ UNCHANGED <<user_feedback, feedback_file, pdf, document, io_failures, args>>

NextSentences == CallGetImportantSentences

SpecSentences == InitSentences /\ [][NextSentences]_vars

(***************************************************************************)
(* Claims.                                                                 *)
(***************************************************************************)
\* C1: round trip.  A score_sections_user_feedback(pid, sections) that directly
\* follows a completed add_user_feedback(pid, t, s), with t among the titles of
\* sections, returns s for t, whatever calls came before.
C1_RoundTrip ==
    (/\ last.op = "score_sections_user_feedback"
     /\ last.after_add # None
     /\ DictHas(last.sections, last.after_add[1][1]))
    => DictGet(last.result, last.after_add[1][1]) = last.after_add[1][2]

\* The score call follows an add of 0.9 for a title it asks about.
C1_Witness ==
    /\ last.op = "score_sections_user_feedback"
    /\ last.after_add = Some(<<title_Methods, Float(9, 10)>>)
    /\ DictHas(last.sections, title_Methods)
    /\ Len(last.sections) = 2

\* C2: idempotence.  An add_user_feedback that repeats the call just made (same
\* paper id, title and score, the storage behaving the same way) changes neither
\* the in-memory feedback nor the content of the feedback file.
C2_Idempotent ==
    [][(last'.op = "add_user_feedback" /\ last'.repeat)
       => (user_feedback' = user_feedback /\ feedback_file' = feedback_file)]_vars

\* The same rating was added twice in a row and written both times.
C2_Witness ==
    /\ last.op = "add_user_feedback"
    /\ last.repeat
    /\ last.outcome = "ok"
    /\ feedback_file = JsonDump(user_feedback)
    /\ Cardinality(DOMAIN user_feedback.items) = 2

\* C3: every entry score_sections returns either records "model" and/or
\* "feedback" and has their arithmetic mean as its score, or is exactly
\* {score: 0.5, sources: {"default": 0.5}}; the latter is what a section gets
\* when neither source is enabled.
IsDefaultEntry(e) == e = [score |-> FHalf, sources |-> <<<<"default", FHalf>>>>]

IsMeanEntry(e) ==
    /\ Len(e.sources) \in {1, 2}
    /\ \A j \in DOMAIN e.sources : e.sources[j][1] \in {"model", "feedback"}
    /\ Len(e.sources) = 1 => e.score = e.sources[1][2]
    /\ Len(e.sources) = 2 =>
          FAdd(e.score, e.score) = FAdd(e.sources[1][2], e.sources[2][2])

C3_MeanOfSources ==
    last.op = "score_sections" =>
        \A i \in DOMAIN last.result :
            /\ IsMeanEntry(last.result[i][2]) \/ IsDefaultEntry(last.result[i][2])
            /\ (~last.use_model /\ ~last.use_feedback)
                  => IsDefaultEntry(last.result[i][2])

\* An entry blends a model score and a feedback score that differ.
C3_Witness ==
    /\ last.op = "score_sections"
    /\ \E i \in DOMAIN last.result :
          /\ Len(last.result[i][2].sources) = 2
          /\ last.result[i][2].sources[1][2] # last.result[i][2].sources[2][2]
          /\ last.result[i][2].score # FHalf

\* C4: with use_model=True and use_feedback=False the result of score_sections
\* is the same for every paper id, whatever feedback the store holds.
C4_PaperIdInvariant ==
    (last.op = "score_sections" /\ last.use_model /\ ~last.use_feedback) =>
        \A q \in PaperIds :
            ScoreSections(user_feedback, q, args.sections, args.abstract,
                          TRUE, FALSE, args.cosine) = last.result

\* Model-only scoring of two sections while the two papers hold different
\* feedback for one of them.
C4_Witness ==
    /\ last.op = "score_sections" /\ last.use_model /\ ~last.use_feedback
    /\ Len(args.sections) = 2
    /\ user_feedback.type = "dict"
    /\ \E p, q \in PaperIds :
          ScoreSectionsUserFeedback(user_feedback, p, args.sections)
             # ScoreSectionsUserFeedback(user_feedback, q, args.sections)

\* C5: score_sections_model returns scores in [0,1], and the largest is 1.0
\* whenever a section scored above 0 before normalisation.
InUnitInterval(x) == FLeq(FZero, x) /\ FLeq(x, FOne)

C5_NormalizedRange ==
    last.op = "score_sections_model" =>
        /\ \A i \in DOMAIN last.result : InUnitInterval(last.result[i][2])
        /\ (\E i \in DOMAIN last.raw : FLess(FZero, last.raw[i][2]))
              => MaxScore(last.result) = FOne

\* The lines of the PDF, each with its page, as extract_structured_text gives
\* them.
DocumentLines == StructuredLines(ExtractStructuredText(Some(pdf)))

\* The texts of the lines set in the body size only.
BodyLines ==
    {DocumentLines[i] : i \in {j \in DOMAIN DocumentLines :
                                  DocumentLines[j].line.sizes = {BodySize}}}

WholeDocument == <<<<str_Document, ExtractText(Some(pdf))>>>>

\* C6: on an openable document for which identify_potential_headings returns
\* no candidate, extract_sections returns the single entry "Document" holding
\* the text extract_text returns; a document whose lines share one font size
\* is such a document.
C6_NoHeadings ==
    (last.op = "extract_sections" /\ pdf.openable) =>
        /\ Cardinality(AllSizes(ExtractStructuredText(Some(pdf)))) <= 1
               => last.potential_headings = <<>>
        /\ last.potential_headings = <<>> => last.result = WholeDocument

\* C6 witness: extract_sections has returned the "Document" section of a
\* two-page document set in one font size.
C6_Witness ==
    /\ last.op = "extract_sections"
    /\ pdf.openable
    /\ Len(pdf.pages) = 2
    /\ AllSizes(ExtractStructuredText(Some(pdf))) = {BodySize}
    /\ Len(last.result) = 1
    /\ last.result[1][1] = str_Document
    /\ Contains(BodyText(1, 0), last.result[1][2])

\* C7: when there are heading candidates and the text of every one of them is
\* empty or whitespace, extract_sections returns the single section "Document"
\* holding the whole text of the document.
C7_WhitespaceHeadings ==
    (/\ last.op = "extract_sections"
     /\ pdf.openable
     /\ last.potential_headings # <<>>
     /\ \A i \in DOMAIN last.potential_headings :
           Strip(last.potential_headings[i].text) = <<>>)
        => last.result = WholeDocument

\* The last of the sorted headings that has this title: the one whose text the
\* entry of the mapping holds.
HeadingOf(sorted_headings, title) ==
    CHOOSE i \in DOMAIN sorted_headings :
        /\ Strip(sorted_headings[i].text) = title
        /\ \A j \in DOMAIN sorted_headings :
              Strip(sorted_headings[j].text) = title => j <= i

\* C8: when some heading is non-empty, no body line is in the text of two
\* sections, and the sections are in the mapping in the (page, y) order of
\* their headings.
C8_NonOverlapping ==
    (/\ last.op = "extract_sections"
     /\ \E i \in DOMAIN last.potential_headings :
           Strip(last.potential_headings[i].text) # <<>>)
        => /\ \A b \in BodyLines : \A k1, k2 \in DOMAIN last.result :
                 (/\ Contains(b.line.text, last.result[k1][2])
                  /\ Contains(b.line.text, last.result[k2][2])) => k1 = k2
           /\ \A k1, k2 \in DOMAIN last.result :
                 k1 < k2 =>
                     HeadingOf(SortHeadings(last.potential_headings),
                               last.result[k1][1])
                       < HeadingOf(SortHeadings(last.potential_headings),
                                   last.result[k2][1])

\* The lines set more than 1.1 times larger than the body size, in (page, y)
\* order.
LargerLines ==
    SortHeadings(PotentialHeadings(ExtractStructuredText(Some(pdf)), BodySize))

\* Two lines are set larger than the body, on different pages, and neither is
\* empty or whitespace.
TwoHeadingsOnTwoPages ==
    /\ pdf.openable
    /\ Len(pdf.pages) >= 2
    /\ Len(LargerLines) = 2
    /\ LargerLines[1].page # LargerLines[2].page
    /\ Strip(LargerLines[1].text) # <<>>
    /\ Strip(LargerLines[2].text) # <<>>

OnHeadingPageBelow(b, h) == b.page = h.page /\ b.line.bbox[2] >= h.bbox[4]

\* Where the code takes the text of the first of two sections from.
InFirstSpan(b, h1, h2) ==
    \/ OnHeadingPageBelow(b, h1)
    \/ h1.page < b.page /\ b.page < h2.page
    \/ b.page = h2.page /\ b.line.bbox[4] <= h2.bbox[2]

InLastSpan(b, h) == OnHeadingPageBelow(b, h) \/ b.page > h.page

\* C9 as stated: with two non-empty headings on different pages there are two
\* candidates and two sections, the text of the first is drawn only from its
\* heading's page below the heading, and the text of the last is what lies
\* below its heading and on every later page.
C9_FirstSectionOnItsPage ==
    (last.op = "extract_sections" /\ TwoHeadingsOnTwoPages) =>
        /\ Len(last.potential_headings) = 2
        /\ Len(last.result) = 2
        /\ \A b \in BodyLines :
              Contains(b.line.text, last.result[1][2])
                  => OnHeadingPageBelow(b, LargerLines[1])
        /\ \A b \in BodyLines :
              Contains(b.line.text, last.result[2][2])
                  <=> InLastSpan(b, LargerLines[2])

\* C9 amended: when the body size is the most frequent size and the two
\* headings have different titles, there are two candidates and two sections
\* in heading order; the text of the first holds the lines below its heading
\* on that page, the pages in between in full and the lines of the second
\* heading's page that end above that heading; the text of the last holds
\* what lies below its heading and every later page.
C9_TwoHeadings ==
    (/\ last.op = "extract_sections"
     /\ TwoHeadingsOnTwoPages
     /\ MostCommonSizes(ExtractStructuredText(Some(pdf))) = {BodySize}
     /\ Strip(LargerLines[1].text) # Strip(LargerLines[2].text)) =>
        /\ Len(last.potential_headings) = 2
        /\ [k \in DOMAIN last.result |-> last.result[k][1]]
             = <<Strip(LargerLines[1].text), Strip(LargerLines[2].text)>>
        /\ \A b \in BodyLines :
              Contains(b.line.text, last.result[1][2])
                  <=> InFirstSpan(b, LargerLines[1], LargerLines[2])
        /\ \A b \in BodyLines :
              Contains(b.line.text, last.result[2][2])
                  <=> InLastSpan(b, LargerLines[2])

\* C9 witness: extract_sections has returned two sections of a three-page
\* document whose first section takes in a page between the headings and a
\* line above the second heading.
C9_Witness ==
    /\ last.op = "extract_sections"
    /\ TwoHeadingsOnTwoPages
    /\ Strip(LargerLines[1].text) # Strip(LargerLines[2].text)
    /\ LargerLines[1].page = 0
    /\ LargerLines[2].page = 2
    /\ Len(last.result) = 2
    /\ Contains(BodyText(1, 0), last.result[1][2])
    /\ Contains(BodyText(2, 0), last.result[1][2])
    /\ Contains(BodyText(2, 2), last.result[2][2])

\* C10: on a PDF that cannot be opened load_document returns False, the
\* extractor holds no document and every extraction returns its empty result,
\* whatever calls came before.
C10_UnopenableEmpty ==
    ~pdf.openable =>
        /\ document = None
        /\ last.op = "load_document" => ~last.returned
        /\ last.op = "extract_text" => last.result = <<>>
        /\ last.op = "extract_structured_text" => last.result = <<>>
        /\ last.op = "extract_sections" => last.result = EmptyDict
        /\ last.op = "get_document_structure" => last.result = EmptyDict

\* C10 witness: get_document_structure has returned {} on a PDF that cannot be
\* opened.
C10_Witness ==
    /\ ~pdf.openable
    /\ last.op = "get_document_structure"
    /\ last.result = EmptyDict

\* C12: add_user_feedback returns True when the write succeeds and False when
\* it fails, and no exception escapes in either case.
C12_ReportsWriteFailure ==
    last.op = "add_user_feedback" =>
        /\ ~last.raised
        /\ last.returned <=> last.outcome = "ok"

\* The file the scorer was constructed on gave it nothing usable: it is
\* missing, could not be read, does not parse, or parses to a value that is not
\* a mapping.
UnusableFile ==
    \/ ~feedback_file.exists
    \/ ~last.readable
    \/ ~feedback_file.wellformed
    \/ feedback_file.value.type # "dict"

\* C13: a scorer constructed on a missing, unreadable or corrupted file gives
\* every section 0.5 and its next add_user_feedback returns without raising.
C13_UnusableFileIsEmpty ==
    [][(last.op = "__init__" /\ UnusableFile) =>
          /\ last'.op = "score_sections_user_feedback" =>
                \A i \in DOMAIN last'.result : last'.result[i][2] = FHalf
          /\ last'.op = "add_user_feedback" =>
                ~last'.raised /\ last'.returned]_vars

\* C14: score_sections_user_feedback returns one entry per section title, in
\* the order of sections: the rating stored for (paper_id, title) when there is
\* one, else 0.5.
C14_OneEntryPerTitle ==
    last.op = "score_sections_user_feedback" =>
        /\ Len(last.result) = Len(last.sections)
        /\ \A i \in DOMAIN last.sections :
              /\ last.result[i][1] = last.sections[i][1]
              /\ last.result[i][2] =
                    IF StoredRating(user_feedback, last.paper_id,
                                    last.sections[i][1]) = None
                    THEN FHalf
                    ELSE StoredRating(user_feedback, last.paper_id,
                                      last.sections[i][1])[1]

\* C14 witness: "p1" is scored on Abstract and Methods while the store holds a
\* rating of Methods for "p1" and a rating of Abstract for "p2" only.
C14_Witness ==
    /\ last.op = "score_sections_user_feedback"
    /\ last.paper_id = "p1"
    /\ Len(last.sections) = 2
    /\ StoredRating(user_feedback, "p1", title_Methods) = Some(Float(0, 1))
    /\ StoredRating(user_feedback, "p1", title_Abstract) = None
    /\ StoredRating(user_feedback, "p2", title_Abstract) # None
    /\ last.result = <<<<title_Abstract, FHalf>>, <<title_Methods, Float(0, 1)>>>>

\* C18: after an add_user_feedback whose write succeeded the file holds the
\* whole in-memory structure, and a scorer constructed next on that file
\* starts with that same structure, so it returns every rating the first held.
C18_WriteThrough ==
    [][/\ (/\ last'.op = "add_user_feedback"
           /\ ~last'.raised
           /\ last'.outcome = "ok")
          => /\ feedback_file' = JsonDump(user_feedback')
             /\ LoadUserFeedback(feedback_file', TRUE) = user_feedback'
       /\ (/\ last.op = "add_user_feedback"
           /\ ~last.raised
           /\ last.outcome = "ok"
           /\ last'.op = "__init__"
           /\ last'.readable)
          => user_feedback' = user_feedback]_vars

\* C18 witness: a write has succeeded after an earlier one failed, and the
\* file holds both ratings of "p1".
C18_Witness ==
    /\ last.op = "add_user_feedback"
    /\ ~last.raised
    /\ last.outcome = "ok"
    /\ io_failures = 1
    /\ StoredRating(feedback_file.value, "p1", title_Methods) # None
    /\ StoredRating(feedback_file.value, "p1", title_Abstract) # None

\* C15: a section of fewer than 10 words gets model score 0.0 on the
\* similarity path and on the keyword path; when it is the only section and no
\* abstract is passed, score_sections with the model enabled gives it 0.0 with
\* feedback disabled and 0.25 with feedback enabled and no rating stored.
C15_ShortSection ==
    /\ last.op = "score_sections_model" =>
          \A i \in DOMAIN args.sections :
              TooShort(args.sections[i][2]) =>
                  /\ last.raw[i] = <<args.sections[i][1], FZero>>
                  /\ last.result[i] = <<args.sections[i][1], FZero>>
    /\ (/\ last.op = "score_sections"
        /\ last.use_model
        /\ Len(args.sections) = 1
        /\ TooShort(args.sections[1][2])
        /\ args.abstract = None) =>
          /\ ~last.use_feedback => last.result[1][2].score = FZero
          /\ (/\ last.use_feedback
              /\ StoredRating(user_feedback, args.paper_id,
                              args.sections[1][1]) = None)
                => last.result[1][2].score = Float(1, 4)

\* C15 witness: the only section has an empty text (keyword path), nothing is
\* rated for it, and score_sections with both sources returns 0.25.
C15_Witness ==
    /\ last.op = "score_sections"
    /\ last.use_model
    /\ last.use_feedback
    /\ args.abstract = None
    /\ args.sections = <<<<title_Abstract, text_empty>>>>
    /\ StoredRating(user_feedback, args.paper_id, title_Abstract) = None
    /\ last.result[1][2] =
          [score |-> Float(1, 4),
           sources |-> <<<<"model", FZero>>, <<"feedback", FHalf>>>>]

\* C17: whatever feedback has been added, every score score_sections returns
\* lies in [0,1].
C17_CombinedScoreRange ==
    last.op = "score_sections" =>
        \A i \in DOMAIN last.result : InUnitInterval(last.result[i][2].score)

\* C20: when the encoder fails while a section is being scored, the exception
\* leaves score_sections_model and score_sections: the call returns no result,
\* so no section gets a score in place of the failed computation.
C20_EncoderFailurePropagates ==
    (/\ last.op \in {"score_sections_model", "score_sections"}
     /\ last.op = "score_sections" => last.use_model
     /\ args.encoder # "ok"
     /\ EncoderCalled(args.sections, args.abstract)) =>
        /\ last.raised
        /\ "result" \notin DOMAIN last

\* C20 witness: score_sections with both sources has raised on a section of
\* ten words because the encoder could not be loaded.
C20_Witness ==
    /\ last.op = "score_sections"
    /\ last.use_model
    /\ last.use_feedback
    /\ last.raised
    /\ args.encoder = "load_error"
    /\ args.sections = <<<<title_Methods, text_long2>>>>

\* C19: with two SectionScorer instances on one feedback file, a completed
\* save leaves in the file exactly the ratings of the writer's own dict: a
\* rating another instance had written for a different paper, which the writer
\* never loaded, is gone from the file (last writer wins), and nothing in the
\* store merges or refuses the write.
C19_LastWriterWins ==
    (/\ last.op = "add_user_feedback"
     /\ ~last.raised
     /\ last.outcome = "ok") =>
        \A q \in PaperIds, t \in RatedTitles :
            /\ StoredRating(feedback_file.value, q, t)
                   = StoredRating(user_feedback[last.scorer], q, t)
            /\ (/\ q # last.paper_id
                /\ StoredRating(last.before.value, q, t) # None
                /\ StoredRating(user_feedback[last.scorer], q, t) = None) =>
                   StoredRating(feedback_file.value, q, t) = None

\* C19 witness: the first instance had stored its rating for p1 in the file;
\* the second, which never loaded it, has stored a rating for p2, and the file
\* now holds the rating for p2 and none for p1.
C19_Witness ==
    /\ last.op = "add_user_feedback"
    /\ last.scorer = "second"
    /\ last.paper_id = "p2"
    /\ last.outcome = "ok"
    /\ last.before.exists /\ last.before.wellformed
    /\ StoredRating(last.before.value, "p1", title_Abstract) = Some(Float(9, 10))
    /\ StoredRating(user_feedback["first"], "p1", title_Abstract)
           = Some(Float(9, 10))
    /\ StoredRating(user_feedback["second"], "p1", title_Abstract) = None
    /\ StoredRating(feedback_file.value, "p1", title_Abstract) = None
    /\ StoredRating(feedback_file.value, "p2", title_Abstract) = Some(Float(9, 10))

\* The number of occurrences of sub in s that can be taken without overlap.
Occurrences(s, sub) ==
    IF sub = <<>> THEN Len(s) + 1
    ELSE LET at == {i \in 1..(Len(s) - Len(sub) + 1) :
                       SubSeq(s, i, i + Len(sub) - 1) = sub}
             apart == {P \in SUBSET at :
                          \A i, j \in P : i < j => i + Len(sub) <= j}
         IN  CHOOSE n \in 0..Len(s) :
                /\ \E P \in apart : Cardinality(P) = n
                /\ \A P \in apart : Cardinality(P) <= n

\* The place where a candidate is first seen in the candidate list.
FirstSeen(term) ==
    CHOOSE i \in DOMAIN args.candidate_terms :
        /\ args.candidate_terms[i] = term
        /\ \A j \in 1..(i - 1) : args.candidate_terms[j] # term

\* C11: rank_terms_by_importance returns at most top_n entries, each a
\* candidate with its case-insensitive occurrence count, in non-increasing
\* order of count, candidates of equal count in their first-seen order.
C11_RankedTerms ==
    last.op = "rank_terms_by_importance" =>
        LET r == last.result
        IN  /\ Len(r) <= args.top_n
            /\ \A i \in DOMAIN r :
                  /\ \E j \in DOMAIN args.candidate_terms :
                        args.candidate_terms[j] = r[i].term
                  /\ r[i].score = Occurrences(Lower(args.text), Lower(r[i].term))
            /\ \A i, j \in DOMAIN r :
                  i < j => \/ r[i].score > r[j].score
                           \/ /\ r[i].score = r[j].score
                              /\ FirstSeen(r[i].term) < FirstSeen(r[j].term)

\* C11 witness: b and nn occur twice each and n four times; ranked with
\* top_n = 3 the candidates b, nn, n come back as n, b, nn.
C11_Witness ==
    /\ last.op = "rank_terms_by_importance"
    /\ args.text = ranked_text1
    /\ args.candidate_terms = <<term_b, term_nn, term_n>>
    /\ args.top_n = 3
    /\ last.result = <<[term |-> term_n, score |-> 4],
                       [term |-> term_b, score |-> 2],
                       [term |-> term_nn, score |-> 2]>>

\* The sentences, in text order, that contain the term followed by one of
\* the definitional patterns, whatever the case.
Definitional(term) ==
    {i \in DOMAIN args.sentences :
        \E tail \in {<<" ", "i", "s", " ">>, <<" ", "a", "r", "e", " ">>,
                     <<" ", "r", "e", "f", "e", "r", "s", " ", "t", "o", " ">>,
                     <<" ", "i", "s", " ", "d", "e", "f", "i", "n", "e", "d",
                       " ", "a", "s", " ">>,
                     <<" ", "m", "e", "a", "n", "s", " ">>,
                     <<",", " ", "w", "h", "i", "c", "h", " ", "i", "s", " ">>,
                     <<" ", "w", "h", "i", "c", "h", " ", "i", "s", " ">>} :
            Contains(Lower(term \o tail), Lower(Strip(args.sentences[i])))}

\* The sentences of more than five words that contain the term.
Contextual(term) ==
    {i \in DOMAIN args.sentences :
        /\ Contains(Lower(term), Lower(Strip(args.sentences[i])))
        /\ Len(Split(args.sentences[i])) > 5}

Least(S) == CHOOSE i \in S : \A j \in S : i <= j

\* C16: for each ranked term find_term_definitions returns the first sentence
\* that contains the term followed by a definitional pattern; when there is
\* none, "Context: " and the first sentence of more than five words containing
\* the term; when there is none either, no entry.
C16_Definitions ==
    last.op = "find_term_definitions" =>
        /\ \A i \in DOMAIN args.terms :
              LET term == args.terms[i].term
              IN  IF Definitional(term) # {}
                  THEN /\ DictHas(last.result, term)
                       /\ DictGet(last.result, term)
                              = Strip(args.sentences[Least(Definitional(term))])
                  ELSE IF Contextual(term) # {}
                  THEN /\ DictHas(last.result, term)
                       /\ DictGet(last.result, term)
                              = str_Context
                                \o Strip(args.sentences[Least(Contextual(term))])
                  ELSE ~DictHas(last.result, term)
        /\ \A k \in DictKeys(last.result) :
              \E i \in DOMAIN args.terms : args.terms[i].term = k

\* C16 witness: the first sentence mentions nn and b in seven words, the
\* second defines NN; nn gets the second sentence, b the first one as context,
\* and k, which no sentence contains, gets no entry.
C16_Witness ==
    /\ last.op = "find_term_definitions"
    /\ args.sentences = <<sent_mention, sent_is>>
    /\ {args.terms[i].term : i \in DOMAIN args.terms}
           = {term_nn, term_b, term_k}
    /\ DictGet(last.result, term_nn) = sent_is
    /\ DictGet(last.result, term_b) = str_Context \o sent_mention
    /\ ~DictHas(last.result, term_k)

\* The previous call was an add_user_feedback whose file write failed.
FailedWrite ==
    /\ last.op = "add_user_feedback"
    /\ ~last.raised
    /\ last.outcome # "ok"

\* A rating held in memory stays as it is through every call on the same
\* scorer, except an add_user_feedback for its own (paper, title).
RatingsKept ==
    \A p \in PaperIds, t \in RatedTitles :
        StoredRating(user_feedback, p, t) # None =>
            \/ StoredRating(user_feedback', p, t) = StoredRating(user_feedback, p, t)
            \/ /\ last'.op = "add_user_feedback"
               /\ last'.paper_id = p
               /\ last'.section_title = t

\* The in-memory half of C25: after a failed write the store holds the
\* attempted rating, score_sections_user_feedback returns it, and it stays
\* while the scorer lives.
HeldInMemory ==
    /\ FailedWrite =>
          StoredRating(user_feedback, last.paper_id, last.section_title)
              = Some(last.score)
    /\ (/\ FailedWrite
        /\ last'.op = "score_sections_user_feedback"
        /\ last'.paper_id = last.paper_id
        /\ DictHas(last'.sections, last.section_title)) =>
           DictGet(last'.result, last.section_title) = last.score
    /\ last'.op # "__init__" => RatingsKept

DurableRating(file, paper_id, title) ==
    StoredRating(LoadUserFeedback(file, TRUE), paper_id, title)

\* In memory, an add_user_feedback leaves every other key's rating as it was
\* and no call on a scorer removes a key.
MemoryFrame ==
    last'.op # "__init__" =>
        \A q \in PaperIds, u \in RatedTitles :
            /\ (/\ last'.op = "add_user_feedback"
                /\ <<q, u>> # <<last'.paper_id, last'.section_title>>) =>
                   StoredRating(user_feedback', q, u)
                       = StoredRating(user_feedback, q, u)
            /\ StoredRating(user_feedback, q, u) # None =>
                   StoredRating(user_feedback', q, u) # None

\* C26: add_user_feedback(p, t, s) changes only the rating stored for (p, t),
\* in memory and in the feedback file, and no call removes a stored rating: the
\* set of rated (paper, title) keys of the store never shrinks.
C26_OnlyRatedKeyChanges ==
    [][/\ MemoryFrame
       /\ \A q \in PaperIds, u \in RatedTitles :
             /\ (/\ last'.op = "add_user_feedback"
                 /\ <<q, u>> # <<last'.paper_id, last'.section_title>>) =>
                    DurableRating(feedback_file', q, u)
                        = DurableRating(feedback_file, q, u)
             /\ DurableRating(feedback_file, q, u) # None =>
                    DurableRating(feedback_file', q, u) # None]_vars

\* C27: score_sections, score_sections_model and score_sections_user_feedback
\* leave the in-memory feedback and the feedback file as they were, also when
\* the paper id has no feedback.
C27_ScoringLeavesStore ==
    [][last'.op \in {"score_sections", "score_sections_model",
                     "score_sections_user_feedback"}
       => /\ user_feedback' = user_feedback
          /\ feedback_file' = feedback_file]_vars

\* C27 witness: score_sections has used the feedback of p2, which has none,
\* while the store holds a rating for p1; memory and file still agree and
\* still hold no entry for p2.
C27_Witness ==
    /\ last.op = "score_sections"
    /\ last.use_feedback
    /\ ~last.raised
    /\ args.paper_id = "p2"
    /\ args.sections # <<>>
    /\ StoredRating(user_feedback, "p1", title_Abstract) # None
    /\ "p2" \notin DOMAIN user_feedback.items
    /\ feedback_file = JsonDump(user_feedback)

\* The names of the sources of one entry, in order.
SourceNames(e) == [j \in DOMAIN e.sources |-> e.sources[j][1]]

\* C30: score_sections returns one entry per section title, in order, and the
\* sources of every entry are exactly the enabled ones: "model" when
\* use_model, "feedback" when use_feedback, and "default" if and only if
\* neither is enabled.
C30_SourcesAreEnabledOnes ==
    (last.op = "score_sections" /\ ~last.raised) =>
        /\ Len(last.result) = Len(args.sections)
        /\ \A i \in DOMAIN args.sections :
              /\ last.result[i][1] = args.sections[i][1]
              /\ SourceNames(last.result[i][2]) =
                    IF ~last.use_model /\ ~last.use_feedback
                    THEN <<"default">>
                    ELSE (IF last.use_model THEN <<"model">> ELSE <<>>)
                         \o (IF last.use_feedback THEN <<"feedback">> ELSE <<>>)

\* C30 witness: both sources enabled on two sections, one of them too short for
\* the model (model score 0) and neither rated for the paper; both entries
\* carry the two sources.
C30_Witness ==
    /\ last.op = "score_sections"
    /\ ~last.raised
    /\ last.use_model /\ last.use_feedback
    /\ Len(args.sections) = 2
    /\ \E i \in DOMAIN args.sections : TooShort(args.sections[i][2])
    /\ \E i \in DOMAIN args.sections : ~TooShort(args.sections[i][2])
    /\ \A i \in DOMAIN last.result :
          /\ SourceNames(last.result[i][2]) = <<"model", "feedback">>
          /\ last.result[i][2].sources[2][2] = FHalf

\* The sections whose title contains the word, whatever the case.
Titled(word) ==
    {i \in DOMAIN args.sections : Contains(word, Lower(args.sections[i][1]))}

\* The texts that can stand for the abstract: those of the sections titled
\* "abstract" or "introduction", and that of the first section.
AbstractLike ==
    {args.sections[i][2] :
        i \in Titled(str_abstract) \cup Titled(str_introduction)
              \cup (DOMAIN args.sections \cap {1})}

\* C24: without an abstract argument score_sections_model takes the keyword
\* path only when no abstract-like text is available: an empty "Abstract"
\* section does not keep a non-empty "Introduction" (or first) section from
\* being the reference text.
C24_ReferenceFallback ==
    (/\ last.op = "score_sections_model"
     /\ ~last.raised
     /\ args.abstract = None) =>
        (last.path = "keyword" <=> \A t \in AbstractLike : t = <<>>)

MostFrequentSizes ==
    LET lines == StructuredLines(last.structured_pages)
        Count_(s) == Cardinality({i \in DOMAIN lines : s \in lines[i].line.sizes})
        sizes == UNION {lines[i].line.sizes : i \in DOMAIN lines}
    IN  {s \in sizes : \A t \in sizes : Count_(t) <= Count_(s)}

\* The lines with a size strictly greater than 1.1 times m.
Qualifying(m) ==
    LET lines == StructuredLines(last.structured_pages)
    IN  {i \in DOMAIN lines :
            \E size \in lines[i].line.sizes : size * 10 > m * 11}

Between(b, h, hn) ==
    /\ \/ b.page = h.page /\ b.line.bbox[2] >= h.bbox[4]
       \/ b.page > h.page
    /\ \/ b.page < hn.page
       \/ b.page = hn.page /\ b.line.bbox[4] <= hn.bbox[2]

\* C23: a heading whose text is empty or whitespace gives no key, and the body
\* lines between it and the next heading are in the text of that next
\* heading's section.
C23_BlankHeadingMerges ==
    last.op = "extract_sections" =>
        LET sorted_headings == SortHeadings(last.potential_headings)
        IN  /\ ~DictHas(last.result, <<>>)
            /\ \A i \in DOMAIN sorted_headings :
                  (/\ Strip(sorted_headings[i].text) = <<>>
                   /\ i < Len(sorted_headings)
                   /\ Strip(sorted_headings[i + 1].text) # <<>>
                   /\ HeadingOf(sorted_headings,
                                Strip(sorted_headings[i + 1].text)) = i + 1) =>
                      \A b \in BodyLines :
                          Between(b, sorted_headings[i], sorted_headings[i + 1])
                              => Contains(b.line.text,
                                     DictGet(last.result,
                                         Strip(sorted_headings[i + 1].text)))

\* C29: when there are heading candidates, extract_sections returns one entry
\* for each distinct non-empty stripped heading text, and the entry holds the
\* text extracted for the last heading of that text.
C29_LastHeadingWins ==
    (last.op = "extract_sections" /\ last.potential_headings # <<>>) =>
        LET sorted_headings == SortHeadings(last.potential_headings)
            titles == {Strip(sorted_headings[i].text) :
                          i \in DOMAIN sorted_headings} \ {<<>>}
        IN  /\ Len(last.result) = Cardinality(titles)
            /\ DictKeys(last.result) = titles
            /\ \A k \in DOMAIN last.result :
                  last.result[k][2] =
                      Strip(SectionText(pdf.pages, sorted_headings,
                               HeadingOf(sorted_headings, last.result[k][1])))

\* C29 witness: two headings "A" on two pages; the single entry "A" holds the
\* text below the second one, which differs from the text of the first.
C29_Witness ==
    /\ last.op = "extract_sections"
    /\ Len(last.potential_headings) = 2
    /\ last.potential_headings[1].text = heading_A
    /\ last.potential_headings[2].text = heading_A
    /\ last.potential_headings[1].page # last.potential_headings[2].page
    /\ Len(last.result) = 1
    /\ last.result[1][1] = Strip(heading_A)
    /\ last.result[1][2]
           = Strip(SectionText(pdf.pages, SortHeadings(last.potential_headings), 2))
    /\ last.result[1][2]
           # Strip(SectionText(pdf.pages, SortHeadings(last.potential_headings), 1))

\* C21: get_important_sentences returns at most top_n sentences, none of
\* fewer than five words, also when there are at most top_n sentences and all
\* are returned without ranking.
C21_ImportantSentences ==
    last.op = "get_important_sentences" =>
        /\ Len(last.result) <= args.top_n
        /\ \A i \in DOMAIN last.result : Len(Split(last.result[i])) >= 5

====
